---- MODULE Spec2Model ----
(***************************************************************************)
(* The async node / flow engine of the TypeScript template: AsyncNode      *)
(* (three-phase lifecycle with retry and fallback), AsyncFlow (the         *)
(* node-by-node driver and its transition table) and the batch nodes.      *)
(***************************************************************************)
EXTENDS Integers, Sequences, FiniteSets, TLC

\* ------------------------------------------------------------------ bounds
\* Largest max_retries a node is configured with.
MaxRetriesBound == 3
\* Largest number of node runs the user logic lets one flow run make.
MaxHops == 3
\* Largest number of items a batch node's prep returns.
MaxItems == 3
\* Largest concurrency_limit of an AsyncParallelBatchNode.
MaxLimit == 2
\* Largest number of parameter sets a batch flow's prep_async yields.
MaxParams == 2
\* Largest number of run calls made on one EnhancedAsyncFlow.
MaxRuns == 2
\* Largest number of clearFlowMetrics calls made on one EnhancedAsyncFlow.
MaxClears == 2
\* The node runs within which the user's post ends a flow that is run again.
MaxHopsTwice == 2
\* Largest failureThreshold a CircuitBreaker is given.
MaxThreshold == 2
\* Largest recoveryTime and ttl (in clock ticks) the decorators are given.
MaxDuration == 2
\* Largest number of calls made on a method wrapped by @Cache, and on the
\* decorated methods of two instances.
MaxCalls == 2

\* ------------------------------------------------------------------ values
\* JavaScript's undefined and null.
Undefined == "undefined"
Null == "null"

\* The number 0.
Zero == "0"

\* a && ..., a || b, !a : undefined, null and 0 are the falsy values that occur
\* here (nodes, Error objects, arrays and non-empty strings are truthy).
Truthy(v) == v \notin {Undefined, Null, Zero}

\* a || b
Or(a, b) == IF Truthy(a) THEN a ELSE b

\* What the user-written lifecycle methods return and throw.  Errors are Error
\* objects (run_async types them `Error`).
PrepVals == {Undefined, "p1"}
ExecVals == {Undefined, "v1"}
FallbackVals == {Undefined, "f1"}
Errors == {"E1", "E2"}
PrepError == "Eprep"
FallbackError == "Efb"
PostError == "Epost"
SyncError == "Esync"
PostActions == {Undefined, "go", "continue", "default"}

NodeIds == {"A", "B", "C"}
\* current_node instanceof AsyncNode: A and B are AsyncNodes, C is a plain Node.
IsAsyncNode(n) == n \in {"A", "B"}
\* The retry waits (seconds) a node is configured with.
WaitVals == {0, 1}

\* The store object the caller hands to run_async.
Store == "store"

\* The fields of a store that the classes of this repository read or write.
StoreKeys ==
    {"input", "output", "items", "currentStage", "mapResults", "reduceResult",
     "batches", "finalResult"}
\* A store none of whose fields is set.
EmptyStore == [k \in StoreKeys |-> Undefined]

\* No MapReduceFlow was built.
NoMapReduce ==
    [class |-> "none", initialValue |-> Undefined, reduceFn |-> Undefined,
     items |-> <<>>, accumulator |-> Undefined, i |-> 0, result |-> Undefined,
     finalResult |-> Undefined]

\* ------------------------------------------------------------------ state
VARIABLES
    wiring,        \* the connect calls that built the flow's graph
    transitions,   \* AsyncFlow.transitions: key string -> node id
    start,         \* AsyncFlow.start
    max_retries,   \* node id -> this.max_retries
    wait,          \* node id -> this.wait
    cur_retry,     \* node id -> this.cur_retry
    flow,          \* the locals and the promise state of AsyncFlow.run_async
    frame,         \* the locals and the promise state of the node run in progress
    active,        \* number of node runs started and not yet settled
    trace,         \* the node runs of this flow run, in order: [node, ret]
    bkind,         \* the class of the batch node run on its own
    concurrency_limit, \* AsyncParallelBatchNode.concurrency_limit,
                   \* EnhancedMapNode.maxConcurrency
    bat,           \* the locals of the batch node's exec_async / _exec
    metrics,       \* the metrics arrays of the enhanced nodes and flows
    store,         \* the fields of the store object the run was handed
    mapred,        \* a MapReduceFlow: the functions it was built with, the
                   \* locals of its run and of EnhancedReduceNode.processAsync
    log,           \* history: the calls made on the flow object and their
                   \* settlements, in order
    memo,          \* the calls of user-written methods made so far, with their
                   \* arguments and outcomes, where the user logic is a function
    parked,        \* a second run of the same flow, on its own store, that is
                   \* suspended at an await while the other run takes steps
    deco,          \* the decorators of one decorated class: their options, the
                   \* closure variables of CircuitBreaker and Cache, the clock
                   \* and the calls of the wrapped methods in flight
    cli            \* one run of the CLI's createProject: its inputs, its
                   \* position and the target directory on disk

cfgVars == <<wiring, transitions, start, max_retries, wait>>
batVars == <<bkind, concurrency_limit, bat>>
enhRest == <<store, mapred, log, memo, parked, deco, cli, cli>>
enhVars == <<metrics, store, mapred, log, memo, parked, deco, cli, cli>>
vars == <<wiring, transitions, start, max_retries, wait, cur_retry, flow, frame,
          active, trace, bkind, concurrency_limit, bat, metrics, store, mapred, log,
          memo, parked, deco, cli, cli>>

\* ------------------------------------------------------------ transitions
\* `${current_node.id}_${current_action}`
Key(id, action) == id \o "_" \o action

\* Map.get
TransitionsGet(t, k) == IF k \in DOMAIN t THEN t[k] ELSE Undefined

\* connect(source, action, target): one entry of the table, under the key
\* run_async reads it with.
Connect(t, source, action, target) ==
    [k \in (DOMAIN t) \cup {Key(source, action)} |->
        IF k = Key(source, action) THEN target ELSE t[k]]

EmptyTable == [k \in {} |-> Undefined]

\* NextNode without the fallback to the default edge.
NextNodeNoDefault(t, node, action) == TransitionsGet(t, Key(node, action))

\* NextNode with cycle detection: an edge back to the node itself is not taken.
NextNodeNoSelfLoop(t, node, action) ==
    LET n == Or(TransitionsGet(t, Key(node, action)),
                TransitionsGet(t, Key(node, "default")))
    IN  IF n = node THEN Undefined ELSE n

\* The next node after `node` returned `action`.
NextNode(t, node, action) ==
    Or(TransitionsGet(t, Key(node, action)), TransitionsGet(t, Key(node, "default")))

\* IsTerminal that never ends the flow: undefined is looked up like an action.
IsTerminalNever(action) == FALSE

\* current_action === undefined
IsTerminal(action) == action = Undefined

\* The connect calls that wire a graph, in call order.
RECURSIVE ConnectAll(_)
ConnectAll(w) ==
    IF w = <<>> THEN EmptyTable
    ELSE Connect(ConnectAll(SubSeq(w, 1, Len(w) - 1)),
                 w[Len(w)][1], w[Len(w)][2], w[Len(w)][3])

\* The graphs the flow is built with.
\* Branch: A.on(go, B), A.on(default, C), B.on(continue, B).
WiringBranch == << <<"A", "go", "B">>, <<"A", "default", "C">>, <<"B", "continue", "B">> >>
\* Loop: A.on(continue, A), A.on(go, B).
WiringLoop == << <<"A", "continue", "A">>, <<"A", "go", "B">> >>
\* Cycle: A.on(default, B), B.on(go, A).
WiringCycle == << <<"A", "default", "B">>, <<"B", "go", "A">> >>
Wirings == {<<>>, WiringBranch, WiringLoop, WiringCycle}

\* The classes derived from EnhancedAsyncNode, whose execFallback is its
\* default.
EnhancedKinds == {"EnhancedMapNode", "EnhancedAsyncNode"}

\* No metrics recorded yet.
NoMetrics == [performanceMetrics |-> <<>>, flowMetrics |-> <<>>, batchMetrics |-> <<>>]

\* ------------------------------------------------------- AsyncNode.run_async
\* One lifecycle call as the node run made it: the method, its arguments, and
\* whether it returned or threw which value.
Call(m, a1, a2, a3, out, val) ==
    [m |-> m, a1 |-> a1, a2 |-> a2, a3 |-> a3, out |-> out, val |-> val]

Pending == "pending"

\* One call made on a node or flow object, or its settlement, in the history.
Event(ev, out, val) == [ev |-> ev, out |-> out, val |-> val]

\* NewFrame whose retry loop resumes after the attempt the node instance
\* recorded last in this.cur_retry, instead of starting at 0.
NewFrameResumed(node, phase) ==
    [node |-> node, phase |-> phase, prep_res |-> Undefined,
     exec_res |-> Undefined, last_error |-> Undefined,
     attempt |-> IF node \in NodeIds /\ cur_retry[node] > 0
                 THEN cur_retry[node] + 1 ELSE 0,
     calls |-> <<>>, ret |-> Pending, error |-> Undefined]

\* The locals of one run_async call: let exec_res, let last_error,
\* for (let attempt = 0; ...).
NewFrame(node, phase) ==
    [node |-> node, phase |-> phase, prep_res |-> Undefined,
     exec_res |-> Undefined, last_error |-> Undefined, attempt |-> 0,
     calls |-> <<>>, ret |-> Pending, error |-> Undefined]

NoFrame == NewFrame(Undefined, "idle")

\* Reject that throws a new generic error instead of the one it caught.
RejectGeneric(fr, e) == [fr EXCEPT !.phase = "rejected", !.error = "AsyncNodeError"]

\* catch (error) { console.error(...); throw error }
Reject(fr, e) == [fr EXCEPT !.phase = "rejected", !.error = e]

\* if (last_error && exec_res === undefined)
NeedsFallback(fr) == Truthy(fr.last_error) /\ fr.exec_res = Undefined

\* Where the run continues once the retry loop is left.
AfterLoop(fr) ==
    [fr EXCEPT !.phase = IF NeedsFallback(fr) THEN "fallback" ELSE "post"]

\* LoopTest that allows max_retries retries after the first attempt.
LoopTestInclusive(fr, mr) ==
    IF fr.attempt <= mr THEN [fr EXCEPT !.phase = "exec"] ELSE AfterLoop(fr)

\* for (...; attempt < this.max_retries; ...)
LoopTest(fr, mr) == IF fr.attempt < mr THEN [fr EXCEPT !.phase = "exec"] ELSE AfterLoop(fr)

\* attempt++ and the loop test
NextAttempt(fr, mr) == LoopTest([fr EXCEPT !.attempt = @ + 1], mr)

\* ShouldDelay that also waits after the last attempt.
ShouldDelayAfterLast(attempt, mr, w) == attempt < mr /\ w > 0

\* if (attempt < this.max_retries - 1 && this.wait > 0)
ShouldDelay(attempt, mr, w) == attempt < mr - 1 /\ w > 0

\* exec_res = await this.exec_async(prep_res); break
ExecReturned(fr, v) == AfterLoop([fr EXCEPT !.exec_res = v])

\* catch (error) { last_error = error; ... }
ExecThrew(fr, e, mr, w) ==
    LET f1 == [fr EXCEPT !.last_error = e]
    IN  IF ShouldDelay(fr.attempt, mr, w)
        THEN [f1 EXCEPT !.phase = "delay"]
        ELSE NextAttempt(f1, mr)

\* The argument run_async hands to exec_async and to exec_fallback_async.
ExecArg(fr) == fr.prep_res

\* FallbackErrorArg that keeps the error of the first failed attempt.
FallbackErrorArgFirst(fr) ==
    LET thrown == SelectSeq(fr.calls, LAMBDA c : c.m = "exec" /\ c.out = "throw")
    IN  IF thrown = <<>> THEN Undefined ELSE thrown[1].val

\* The error run_async hands to exec_fallback_async.
FallbackErrorArg(fr) == fr.last_error

\* PostResultArg that hands post the prepared input instead of the result.
PostResultArgPrep(fr) == fr.prep_res

\* The result run_async hands to post_async.
PostResultArg(fr) == fr.exec_res

Logged(fr, c) == [fr EXCEPT !.calls = Append(@, c)]

Settled(fr) == fr.phase \in {"resolved", "rejected"}

\* The frame moves to f2; a run that settles is no longer active and its
\* outcome is recorded in the trace.
FrameStep(f2) ==
    /\ frame' = f2
    /\ active' = IF Settled(f2) THEN active - 1 ELSE active
    /\ trace' = IF Settled(f2) /\ trace # <<>>
                THEN [trace EXCEPT ![Len(trace)].ret =
                        IF f2.phase = "resolved" THEN f2.ret ELSE "threw"]
                ELSE trace

\* const prep_res = await this.prep_async(shared)
NodePrepStep ==
    /\ frame.phase = "prep"
    /\ \/ \E v \in PrepVals :
            FrameStep(LoopTest(
                Logged([frame EXCEPT !.prep_res = v],
                       Call("prep", flow.shared, Undefined, Undefined, "ret", v)),
                max_retries[frame.node]))
       \/ FrameStep(Reject(
                Logged(frame, Call("prep", flow.shared, Undefined, Undefined,
                                   "throw", PrepError)),
                PrepError))

NodePrep ==
    /\ NodePrepStep
    /\ UNCHANGED <<cfgVars, enhVars, cur_retry, flow, batVars>>

\* One pass of the retry loop: this.cur_retry = attempt; exec_async(prep_res).
NodeExecStep ==
    /\ frame.phase = "exec"
    /\ cur_retry' = [cur_retry EXCEPT ![frame.node] = frame.attempt]
    /\ \/ \E v \in ExecVals :
            FrameStep(ExecReturned(
                Logged(frame, Call("exec", ExecArg(frame), Undefined, Undefined,
                                   "ret", v)), v))
       \/ \E e \in Errors :
            FrameStep(ExecThrew(
                Logged(frame, Call("exec", ExecArg(frame), Undefined, Undefined,
                                   "throw", e)),
                e, max_retries[frame.node], wait[frame.node]))

NodeExec ==
    /\ NodeExecStep
    /\ UNCHANGED <<cfgVars, enhVars, flow, batVars>>

\* await this.delay(this.wait * 1000), then the next pass.
NodeDelay ==
    /\ frame.phase = "delay"
    /\ FrameStep(NextAttempt(
            Logged(frame, Call("delay", wait[frame.node], Undefined, Undefined,
                               "ret", Undefined)),
            max_retries[frame.node]))
    /\ UNCHANGED <<cfgVars, enhVars, cur_retry, flow, batVars>>

\* exec_res = await this.exec_fallback_async(prep_res, last_error): the default
\* re-throws the error it was given, an override returns a value or throws.
NodeFallbackStep ==
    /\ frame.phase = "fallback"
    /\ bkind \notin EnhancedKinds
    /\ \/ \E v \in FallbackVals :
            FrameStep([Logged(frame, Call("fallback", ExecArg(frame),
                                          FallbackErrorArg(frame), Undefined,
                                          "ret", v))
                       EXCEPT !.exec_res = v, !.phase = "post"])
       \/ \E e \in {FallbackErrorArg(frame), FallbackError} :
            FrameStep(Reject(
                Logged(frame, Call("fallback", ExecArg(frame),
                                   FallbackErrorArg(frame), Undefined, "throw", e)),
                e))

NodeFallback ==
    /\ NodeFallbackStep
    /\ UNCHANGED <<cfgVars, enhVars, cur_retry, flow, batVars>>

\* The actions the user's post may return here: the user ends the flow within
\* MaxHops node runs.
AllowedActions ==
    {a \in PostActions :
        \/ Len(trace) < MaxHops
        \/ IsTerminal(a)
        \/ ~ Truthy(NextNode(transitions, frame.node, a))}

\* return await this.post_async(shared, prep_res, exec_res)
NodePost ==
    /\ frame.phase = "post"
    /\ \/ \E a \in AllowedActions :
            FrameStep([Logged(frame, Call("post", flow.shared, frame.prep_res,
                                          PostResultArg(frame), "ret", a))
                       EXCEPT !.ret = a, !.phase = "resolved"])
       \/ FrameStep(Reject(
                Logged(frame, Call("post", flow.shared, frame.prep_res,
                                   PostResultArg(frame), "throw", PostError)),
                PostError))
    /\ UNCHANGED <<cfgVars, enhVars, cur_retry, flow, batVars>>

\* const action = current_node.run(shared): the library's Node.run, whose
\* lifecycle is not this repository's; it returns an action or throws.
SyncRun ==
    /\ frame.phase = "sync"
    /\ \/ \E a \in AllowedActions :
            FrameStep([frame EXCEPT !.ret = a, !.phase = "resolved"])
       \/ FrameStep(Reject(frame, SyncError))
    /\ UNCHANGED <<cfgVars, enhVars, cur_retry, flow, batVars>>

\* --------------------------------------------------------- AsyncFlow.run_async
\* Awaited of a call that is not awaited: the flow goes on at once.
AwaitedNever(fr) == TRUE

\* await: the flow continues once the node's promise has settled.
Awaited(fr) == Settled(fr)

\* The locals of run_async(shared) before its first statement; runs counts the calls of run_async on the flow object.
NewFlow ==
    [state |-> "ready", current_node |-> Undefined, current_action |-> Undefined,
     error |-> Undefined, shared |-> Store, runs |-> 0]

\* The CLI is not run.
NoCli == [version |-> Undefined, projectDir |-> Undefined, installed |-> {},
          before |-> "absent", disk |-> "absent", pc |-> "none",
          packageName |-> Undefined, error |-> Undefined]

\* No class is decorated.
NoDeco == [failureThreshold |-> 0, recoveryTime |-> 0, ttl |-> 0, now |-> 0,
           failureCount |-> 0, lastFailureTime |-> 0, cache |-> <<>>,
           inflight |-> {}, calls |-> 0, instances |-> {}, limit |-> 0]

\* The locals and the store of a run of the flow that has not been started.
NoRun == [flow |-> NewFlow, frame |-> NoFrame, trace |-> <<>>, store |-> EmptyStore]

\* if (!this.start) throw ...; current_node = this.start; current_action = 'default'
FlowRun ==
    /\ flow.state = "ready"
    /\ flow' = IF Truthy(start)
               THEN [flow EXCEPT !.state = "loop", !.current_node = start,
                                 !.current_action = "default", !.runs = @ + 1]
               ELSE [flow EXCEPT !.state = "rejected", !.error = "NoStart",
                                 !.runs = @ + 1]
    /\ UNCHANGED <<cfgVars, enhVars, cur_retry, frame, active, trace, batVars>>

\* while (current_node) { current_node.run_async(shared) | current_node.run(shared)
FlowCall ==
    /\ flow.state = "loop"
    /\ Truthy(flow.current_node)
    /\ frame' = NewFrame(flow.current_node,
                         IF IsAsyncNode(flow.current_node) THEN "prep" ELSE "sync")
    /\ active' = active + 1
    /\ trace' = Append(trace, [node |-> flow.current_node, ret |-> Pending])
    /\ flow' = [flow EXCEPT !.state = "await"]
    /\ UNCHANGED <<cfgVars, enhVars, cur_retry, batVars>>

\* while (current_node) is false: run_async returns.
FlowExit ==
    /\ flow.state = "loop"
    /\ ~ Truthy(flow.current_node)
    /\ flow' = [flow EXCEPT !.state = "resolved"]
    /\ UNCHANGED <<cfgVars, enhVars, cur_retry, frame, active, trace, batVars>>

\* FlowCatch that swallows the error and runs the node again.
FlowCatchRetry(fl, e) == [fl EXCEPT !.state = "loop"]

\* The flow after the node's promise rejected with e: catch, log, throw error.
FlowCatch(fl, e) == [fl EXCEPT !.state = "rejected", !.error = e]

\* The flow after the node's promise resolved with action a.
FlowStep(fl, t, a) ==
    IF IsTerminal(a)
    THEN [fl EXCEPT !.current_action = a, !.state = "resolved"]
    ELSE [fl EXCEPT !.current_action = a, !.state = "loop",
                    !.current_node = NextNode(t, fl.current_node, a)]

\* current_action = await ...; the lookup of the next node; the catch.
FlowResume ==
    /\ flow.state = "await"
    /\ Awaited(frame)
    /\ flow' = IF frame.phase = "rejected"
               THEN FlowCatch(flow, frame.error)
               ELSE FlowStep(flow, transitions, frame.ret)
    /\ UNCHANGED <<cfgVars, enhVars, cur_retry, frame, active, trace, batVars>>

\* ---------------------------------------------------------------- batch nodes
BatchKinds ==
    {"AsyncBatchNode", "AsyncParallelBatchNode", "ParallelBatchNode", "EnhancedMapNode"}

\* The array objects a batch node's prep and exec return: the frame holds the
\* reference, bat holds the elements.
ItemsRef == "items[]"
ResultsRef == "results[]"

\* The items prep returns: n distinct items, for every n up to MaxItems.
ItemNames == <<"i1", "i2", "i3", "i4", "i5">>
ItemLists == {[j \in 1..n |-> ItemNames[n + 1 - j]] : n \in 0..MaxItems}

\* The value the user's process_item_async / processItem returns for an item.
Process(item) == item \o "*2"

\* No batch node is running.  started and failed log, over the whole node run,
\* the indices of the items whose processing was invoked and of those whose
\* processing threw; waiting is set while exec awaits a Promise.all /
\* Promise.allSettled; chunks are EnhancedMapNode's.
NoBatch ==
    [prepared |-> <<>>, items |-> <<>>, results |-> <<>>, i |-> 0,
     inflight |-> {}, done |-> <<>>, started |-> <<>>, failed |-> <<>>,
     waiting |-> FALSE, chunks |-> <<>>]

\* One settled item promise: the item's index, its status and its value or reason.
Settlement(idx, out, val) == [idx |-> idx, out |-> out, val |-> val]

\* Slice that takes one item more: items.slice(i, i + limit + 1).
SliceWide(items, i, limit) ==
    [j \in 1..(IF i + limit + 1 <= Len(items) THEN limit + 1 ELSE Len(items) - i) |-> i + j]

\* Array.prototype.slice's reading of an index: a negative one counts from the
\* end, and the result is clamped to 0..length.
SliceIndex(n, k) ==
    IF k < 0 THEN (IF n + k < 0 THEN 0 ELSE n + k)
    ELSE IF k > n THEN n ELSE k

\* items.slice(i, i + limit), as the indices of the items.
Slice(items, i, limit) ==
    LET from == SliceIndex(Len(items), i)
        to == SliceIndex(Len(items), i + limit)
    IN  [j \in 1..(IF to > from THEN to - from ELSE 0) |-> from + j]

\* i += step.  Below -array.length every slice is empty and the loop test
\* i < array.length stays true, so lower values of i are not told apart.
Advance(i, step) == IF i + step < -(MaxItems + 1) THEN -(MaxItems + 1) ELSE i + step

SeqRange(q) == {q[j] : j \in 1..Len(q)}

\* InInputOrder that hands the settlements back in the order they settled.
InCompletionOrder(idxs, done) == done

\* Promise.all / Promise.allSettled hand back the settlements in the order of
\* the promises passed in, one per promise.
InInputOrder(idxs, done) ==
    [j \in 1..Len(idxs) |->
        IF \E d \in SeqRange(done) : d.idx = idxs[j]
        THEN CHOOSE d \in SeqRange(done) : d.idx = idxs[j]
        ELSE Settlement(idxs[j], Pending, Undefined)]

\* AllSettled of a Promise.race: the await resumes at the first settlement.
AnySettled(b) == b.done # <<>>

\* The promise of Promise.all / Promise.allSettled over the dispatched items
\* settles no earlier than the last of them (Promise.all: unless one rejects).
AllSettled(b) == b.inflight = {}

\* EnhancedMapNode.chunkArray: for (i = 0; i < array.length; i += chunkSize)
\* chunks.push(array.slice(i, i + chunkSize)), as indices; i is the loop variable.
RECURSIVE ChunkArray(_, _, _)
ChunkArray(array, chunkSize, i) ==
    IF i < Len(array)
    THEN <<Slice(array, i, chunkSize)>> \o ChunkArray(array, chunkSize, i + chunkSize)
    ELSE <<>>

\* result.status === 'fulfilled' ? result.value : null
AllSettledEntry(d) == IF d.out = "fulfilled" THEN d.val ELSE Null

\* prep_async / prep of the batch node returns the item array.
BatchPrep ==
    /\ frame.phase = "prep"
    /\ bkind \in BatchKinds
    /\ \E list \in ItemLists :
        /\ bat' = [bat EXCEPT !.prepared = list]
        /\ FrameStep(LoopTest(
                Logged([frame EXCEPT !.prep_res = ItemsRef],
                       Call("prep", flow.shared, Undefined, Undefined, "ret", ItemsRef)),
                max_retries[frame.node]))
    /\ UNCHANGED <<cfgVars, enhVars, cur_retry, flow, bkind, concurrency_limit>>

\* exec_async(prep_res) / _exec(items) is entered: its locals; ParallelBatchNode
\* maps processItem over all items at once.
BatchExecStart ==
    /\ frame.phase = "exec"
    /\ cur_retry' = IF bkind \in {"ParallelBatchNode", "EnhancedMapNode"} THEN cur_retry
                    ELSE [cur_retry EXCEPT ![frame.node] = frame.attempt]
    /\ bat' = [bat EXCEPT
                !.items = bat.prepared, !.results = <<>>, !.i = 0, !.done = <<>>,
                !.inflight = IF bkind = "ParallelBatchNode"
                             THEN @ \cup 1..Len(bat.prepared) ELSE @,
                !.waiting = bkind = "ParallelBatchNode",
                !.chunks = IF bkind = "EnhancedMapNode"
                           THEN ChunkArray(bat.prepared, concurrency_limit, 0)
                           ELSE <<>>,
                !.started = IF bkind = "ParallelBatchNode"
                            THEN @ \o [j \in 1..Len(bat.prepared) |-> j] ELSE @]
    /\ FrameStep([frame EXCEPT !.phase = "execing"])
    /\ UNCHANGED <<cfgVars, enhVars, flow, bkind, concurrency_limit>>

\* AsyncBatchNode.exec_async: const result = await this.process_item_async(item);
\* results.push(result).  A throw leaves exec_async.
BatchSeqItem ==
    /\ bkind = "AsyncBatchNode"
    /\ frame.phase = "execing"
    /\ Len(bat.results) < Len(bat.items)
    /\ LET idx == Len(bat.results) + 1
       IN  \/ /\ bat' = [bat EXCEPT !.started = Append(@, idx),
                                    !.results = Append(@, Process(bat.items[idx]))]
              /\ UNCHANGED <<frame, active, trace>>
           \/ \E e \in Errors :
              /\ bat' = [bat EXCEPT !.started = Append(@, idx),
                                    !.failed = Append(@, idx)]
              /\ FrameStep(ExecThrew(
                    Logged(frame, Call("exec", ExecArg(frame), Undefined, Undefined,
                                       "throw", e)),
                    e, max_retries[frame.node], wait[frame.node]))
    /\ UNCHANGED <<cfgVars, enhVars, cur_retry, flow, bkind, concurrency_limit>>

\* AsyncParallelBatchNode.exec_async: batch.map(item => this.process_item_async(item))
ParDispatch ==
    /\ bkind = "AsyncParallelBatchNode"
    /\ frame.phase = "execing"
    /\ ~ bat.waiting
    /\ bat.i < Len(bat.items)
    /\ LET batch == Slice(bat.items, bat.i, concurrency_limit)
       IN  bat' = [bat EXCEPT !.inflight = @ \cup SeqRange(batch),
                              !.started = @ \o batch, !.waiting = TRUE]
    /\ UNCHANGED <<cfgVars, enhVars, cur_retry, flow, frame, active, trace, bkind,
                   concurrency_limit>>

\* One item promise in flight fulfils or rejects.
BatchItemSettle ==
    /\ bat.inflight # {}
    /\ \E idx \in bat.inflight :
        \/ bat' = [bat EXCEPT
                    !.inflight = @ \ {idx},
                    !.done = Append(@, Settlement(idx, "fulfilled",
                                                  Process(bat.items[idx])))]
        \/ \E e \in Errors :
           bat' = [bat EXCEPT
                    !.inflight = @ \ {idx},
                    !.failed = Append(@, idx),
                    !.done = Append(@, Settlement(idx, "rejected", e))]
    /\ UNCHANGED <<cfgVars, enhVars, cur_retry, flow, frame, active, trace, bkind,
                   concurrency_limit>>

\* await Promise.allSettled(...) resumes; results.push(value | null) for each;
\* i += this.concurrency_limit.
ParCollect ==
    /\ bkind = "AsyncParallelBatchNode"
    /\ frame.phase = "execing"
    /\ bat.waiting /\ AllSettled(bat)
    /\ LET batch == Slice(bat.items, bat.i, concurrency_limit)
           batch_results == InInputOrder(batch, bat.done)
       IN  bat' = [bat EXCEPT
                    !.results = @ \o [j \in 1..Len(batch_results) |->
                                        AllSettledEntry(batch_results[j])],
                    !.i = Advance(@, concurrency_limit),
                    !.done = <<>>, !.waiting = FALSE]
    /\ UNCHANGED <<cfgVars, enhVars, cur_retry, flow, frame, active, trace, bkind,
                   concurrency_limit>>

\* return results, from AsyncBatchNode.exec_async and
\* AsyncParallelBatchNode.exec_async.
BatchReturn ==
    /\ frame.phase = "execing"
    /\ \/ bkind = "AsyncBatchNode" /\ Len(bat.results) = Len(bat.items)
       \/ /\ bkind = "AsyncParallelBatchNode"
          /\ bat.i >= Len(bat.items)
          /\ ~ bat.waiting
    /\ FrameStep(ExecReturned(
            Logged(frame, Call("exec", ExecArg(frame), Undefined, Undefined,
                               "ret", ResultsRef)),
            ResultsRef))
    /\ UNCHANGED <<cfgVars, enhVars, cur_retry, flow, batVars>>

\* The entry ParallelBatchNode._exec pushes to performanceMetrics for a whole
\* batch: batchIndex is the array's length, itemCount is items.length.
ParallelBatchMetric(batchIndex, itemCount, success) ==
    [batchIndex |-> batchIndex, itemCount |-> itemCount, success |-> success]

\* ParallelBatchNode._exec: await Promise.all(...) fulfils once every item has;
\* the batch is recorded in performanceMetrics; return results.  The library's
\* _run then calls post.
PAllResolve ==
    /\ bkind = "ParallelBatchNode"
    /\ frame.phase = "execing"
    /\ bat.waiting /\ AllSettled(bat)
    /\ \A d \in SeqRange(bat.done) : d.out = "fulfilled"
    /\ LET all == InInputOrder([j \in 1..Len(bat.items) |-> j], bat.done)
       IN  bat' = [bat EXCEPT !.results = [j \in 1..Len(all) |-> all[j].val],
                              !.waiting = FALSE]
    /\ metrics' = [metrics EXCEPT !.batchMetrics =
                        Append(@, ParallelBatchMetric(Len(@), Len(bat.items), TRUE))]
    /\ FrameStep([Logged(frame, Call("exec", ExecArg(frame), Undefined, Undefined,
                                     "ret", ResultsRef))
                  EXCEPT !.exec_res = ResultsRef, !.phase = "post"])
    /\ UNCHANGED <<cfgVars, enhRest, cur_retry, flow, bkind, concurrency_limit>>

\* ParallelBatchNode._exec: Promise.all rejects with the first rejection;
\* catch (error) { the batch is recorded in performanceMetrics; throw error }.
PAllReject ==
    /\ bkind = "ParallelBatchNode"
    /\ frame.phase = "execing"
    /\ \E k \in 1..Len(bat.done) :
        /\ bat.done[k].out = "rejected"
        /\ \A j \in 1..(k - 1) : bat.done[j].out = "fulfilled"
        /\ FrameStep(Reject(
                Logged(frame, Call("exec", ExecArg(frame), Undefined, Undefined,
                                   "throw", bat.done[k].val)),
                bat.done[k].val))
    /\ metrics' = [metrics EXCEPT !.batchMetrics =
                        Append(@, ParallelBatchMetric(Len(@), Len(bat.items), FALSE))]
    /\ UNCHANGED <<cfgVars, enhRest, cur_retry, flow, batVars>>

\* One entry of EnhancedAsyncNode.performanceMetrics.
PerformanceMetric(success, error) == [success |-> success, error |-> error]

\* EnhancedMapNode.processAsync: the next chunk's mapFn calls are made and
\* Promise.all over them is awaited.
MapDispatch ==
    /\ bkind = "EnhancedMapNode"
    /\ frame.phase = "execing"
    /\ ~ bat.waiting
    /\ bat.i < Len(bat.chunks)
    /\ LET chunk == bat.chunks[bat.i + 1]
       IN  bat' = [bat EXCEPT !.inflight = @ \cup SeqRange(chunk),
                              !.started = @ \o chunk, !.waiting = TRUE]
    /\ UNCHANGED <<cfgVars, enhVars, cur_retry, flow, frame, active, trace, bkind,
                   concurrency_limit>>

\* await Promise.all(...) fulfils; allResults.push(...chunkResults); next chunk.
MapCollect ==
    /\ bkind = "EnhancedMapNode"
    /\ frame.phase = "execing"
    /\ bat.waiting /\ AllSettled(bat)
    /\ \A d \in SeqRange(bat.done) : d.out = "fulfilled"
    /\ LET chunkResults == InInputOrder(bat.chunks[bat.i + 1], bat.done)
       IN  bat' = [bat EXCEPT
                    !.results = @ \o [j \in 1..Len(chunkResults) |-> chunkResults[j].val],
                    !.i = @ + 1, !.done = <<>>, !.waiting = FALSE]
    /\ UNCHANGED <<cfgVars, enhVars, cur_retry, flow, frame, active, trace, bkind,
                   concurrency_limit>>

\* Promise.all rejects with the first rejection of the chunk: processAsync
\* throws, EnhancedAsyncNode.exec records the failure and re-throws; it was the
\* node's only attempt (maxRetries is 1), so execFallback is next.
MapReject ==
    /\ bkind = "EnhancedMapNode"
    /\ frame.phase = "execing"
    /\ bat.waiting
    /\ \E k \in 1..Len(bat.done) :
        /\ bat.done[k].out = "rejected"
        /\ \A j \in 1..(k - 1) : bat.done[j].out = "fulfilled"
        /\ metrics' = [metrics EXCEPT !.performanceMetrics =
                            Append(@, PerformanceMetric(FALSE, bat.done[k].val))]
        /\ FrameStep([Logged(frame, Call("exec", ExecArg(frame), Undefined, Undefined,
                                         "throw", bat.done[k].val))
                      EXCEPT !.last_error = bat.done[k].val, !.phase = "fallback"])
    /\ UNCHANGED <<cfgVars, enhRest, cur_retry, flow, batVars>>

\* return allResults: EnhancedAsyncNode.exec records the success and returns.
MapReturn ==
    /\ bkind = "EnhancedMapNode"
    /\ frame.phase = "execing"
    /\ ~ bat.waiting
    /\ bat.i >= Len(bat.chunks)
    /\ metrics' = [metrics EXCEPT !.performanceMetrics =
                        Append(@, PerformanceMetric(TRUE, Undefined))]
    /\ FrameStep([Logged(frame, Call("exec", ExecArg(frame), Undefined, Undefined,
                                     "ret", ResultsRef))
                  EXCEPT !.exec_res = ResultsRef, !.phase = "post"])
    /\ UNCHANGED <<cfgVars, enhRest, cur_retry, flow, batVars>>

\* EnhancedAsyncNode.execFallback: console.warn(...); return null.
EnhancedExecFallback ==
    /\ frame.phase = "fallback"
    /\ bkind \in EnhancedKinds
    /\ FrameStep([Logged(frame, Call("fallback", ExecArg(frame), frame.last_error,
                                     Undefined, "ret", Null))
                  EXCEPT !.exec_res = Null, !.phase = "post"])
    /\ UNCHANGED <<cfgVars, enhVars, cur_retry, flow, batVars>>

\* ------------------------------------- EnhancedAsyncNode, EnhancedAsyncFlow
\* An EnhancedAsyncFlow around one node of a class derived from EnhancedAsyncNode
\* that does not override execFallback.
EnhancedNode == "EnhancedAsyncNode"

\* One entry of EnhancedAsyncFlow.flowMetrics; getNodeCount() returns 1.
FlowMetric(success, error) == [success |-> success, error |-> error, nodeCount |-> 1]

\* RecordRun that puts the new record in front of the earlier ones.
RecordRunFirst(flowMetrics, success, error) ==
    <<FlowMetric(success, error)>> \o flowMetrics

\* this.flowMetrics.push({..., success, error, ...})
RecordRun(flowMetrics, success, error) ==
    Append(flowMetrics, FlowMetric(success, error))

\* EnhancedAsyncFlow.run(shared): result = await super.run(shared) starts the
\* library flow, which runs the start node.
EnhancedFlowRun ==
    /\ bkind = EnhancedNode
    /\ flow.state \in {"ready", "resolved", "rejected"}
    /\ flow.runs < MaxRuns
    /\ flow' = [NewFlow EXCEPT !.state = "await", !.current_node = start,
                               !.runs = flow.runs + 1]
    /\ frame' = NewFrame(start, "prep")
    /\ active' = active + 1
    /\ trace' = <<[node |-> start, ret |-> Pending]>>
    /\ log' = Append(log, Event("run", Pending, Undefined))
    /\ UNCHANGED <<cfgVars, memo, parked, deco, cli, metrics, store, mapred, cur_retry, batVars>>

\* EnhancedAsyncNode.prep returns shared; a subclass returns its own value or
\* throws.
EnhancedPrep ==
    /\ bkind = EnhancedNode
    /\ frame.phase = "prep"
    /\ \/ \E v \in PrepVals \cup {flow.shared} :
            FrameStep([Logged(frame, Call("prep", flow.shared, Undefined, Undefined,
                                         "ret", v))
                       EXCEPT !.prep_res = v, !.phase = "exec"])
       \/ FrameStep(Reject(
                Logged(frame, Call("prep", flow.shared, Undefined, Undefined,
                                   "throw", PrepError)),
                PrepError))
    /\ UNCHANGED <<cfgVars, enhVars, cur_retry, flow, batVars>>

\* EnhancedAsyncNode.exec: result = await this.processAsync(prepRes), the
\* outcome is recorded; a throw is re-thrown and, this being the node's only
\* attempt (maxRetries is 1), execFallback is next.
EnhancedExec ==
    /\ bkind = EnhancedNode
    /\ frame.phase = "exec"
    /\ \/ \E v \in ExecVals \cup {ExecArg(frame)} :
            /\ metrics' = [metrics EXCEPT !.performanceMetrics =
                                Append(@, PerformanceMetric(TRUE, Undefined))]
            /\ FrameStep([Logged(frame, Call("exec", ExecArg(frame), Undefined,
                                             Undefined, "ret", v))
                          EXCEPT !.exec_res = v, !.phase = "post"])
       \/ \E e \in Errors :
            /\ metrics' = [metrics EXCEPT !.performanceMetrics =
                                Append(@, PerformanceMetric(FALSE, e))]
            /\ FrameStep([Logged(frame, Call("exec", ExecArg(frame), Undefined,
                                             Undefined, "throw", e))
                          EXCEPT !.last_error = e, !.phase = "fallback"])
    /\ UNCHANGED <<cfgVars, enhRest, cur_retry, flow, batVars>>

\* await super.run(shared) settles: the flow records the run in flowMetrics
\* and returns the result or re-throws the error.
EnhancedFlowSettle ==
    /\ bkind = EnhancedNode
    /\ flow.state = "await"
    /\ Awaited(frame)
    /\ IF frame.phase = "rejected"
       THEN /\ flow' = [flow EXCEPT !.state = "rejected", !.error = frame.error]
            /\ metrics' = [metrics EXCEPT !.flowMetrics =
                                RecordRun(@, FALSE, frame.error)]
            /\ log' = Append(log, Event("settle", "rejected", frame.error))
       ELSE /\ flow' = [flow EXCEPT !.state = "resolved", !.current_action = frame.ret]
            /\ metrics' = [metrics EXCEPT !.flowMetrics =
                                RecordRun(@, TRUE, Undefined)]
            /\ log' = Append(log, Event("settle", "resolved", Undefined))
    /\ UNCHANGED <<cfgVars, memo, parked, deco, cli, store, mapred, cur_retry, frame, active, trace, batVars>>

\* A second run(shared) called on the flow object while a run is in flight.
\* The node run it starts is not followed step by step: it is counted in
\* active until its promise settles.
EnhancedFlowRunOverlapping ==
    /\ bkind = EnhancedNode
    /\ flow.state = "await"
    /\ flow.runs < MaxRuns
    /\ flow' = [flow EXCEPT !.runs = @ + 1]
    /\ active' = active + 1
    /\ log' = Append(log, Event("run", Pending, Undefined))
    /\ UNCHANGED <<cfgVars, memo, parked, deco, cli, metrics, store, mapred, cur_retry, frame, trace, batVars>>

\* await super.run(shared) of an overlapping run settles: the flow records the
\* run in flowMetrics and returns the result or re-throws the error.
EnhancedOverlappingSettle ==
    /\ bkind = EnhancedNode
    /\ active > (IF frame.phase \in {"idle", "resolved", "rejected"} THEN 0 ELSE 1)
    /\ active' = active - 1
    /\ \/ /\ metrics' = [metrics EXCEPT !.flowMetrics = RecordRun(@, TRUE, Undefined)]
          /\ log' = Append(log, Event("settle", "resolved", Undefined))
       \/ \E e \in Errors :
          /\ metrics' = [metrics EXCEPT !.flowMetrics = RecordRun(@, FALSE, e)]
          /\ log' = Append(log, Event("settle", "rejected", e))
    /\ UNCHANGED <<cfgVars, memo, parked, deco, cli, store, mapred, cur_retry, flow, frame, trace, batVars>>

\* The clearFlowMetrics calls on the flow so far.
Clears == SelectSeq(log, LAMBDA x : x.ev = "clearFlowMetrics")

\* clearFlowMetrics(): this.flowMetrics = []
ClearFlowMetrics ==
    /\ bkind = EnhancedNode
    /\ Len(Clears) < MaxClears
    /\ metrics' = [metrics EXCEPT !.flowMetrics = <<>>]
    /\ log' = Append(log, Event("clearFlowMetrics", "ret", Undefined))
    /\ UNCHANGED <<cfgVars, memo, parked, deco, cli, store, mapred, cur_retry, flow, frame, active, trace,
                   batVars>>

\* ------------------------------------------- EnhancedBatchFlow.runWithDelays
\* An EnhancedBatchFlow with batchDelay > 0 around an EnhancedBatchNode.
DelayedFlow == "EnhancedBatchFlow"

\* The array literal [] that runWithDelays hands to post for an empty batch.
EmptyRef == "[]"

\* One entry of EnhancedBatchNode.performanceMetrics.
BatchMetric(batchIndex, success) ==
    [batchIndex |-> batchIndex, itemCount |-> 1, success |-> success]

\* const items = await this.batchProcessor.prep(shared);
\* if (!items || items.length === 0) return this.batchProcessor.post(shared, [], undefined)
RunWithDelaysPrep ==
    /\ bkind = DelayedFlow
    /\ frame.phase = "prep"
    /\ \E list \in ItemLists :
        /\ bat' = [bat EXCEPT !.prepared = list, !.items = list]
        /\ LET f1 == Logged(frame, Call("prep", flow.shared, Undefined, Undefined,
                                        "ret", ItemsRef))
           IN  FrameStep(IF Len(list) = 0
                         THEN [f1 EXCEPT !.prep_res = EmptyRef, !.exec_res = Undefined,
                                         !.phase = "post"]
                         ELSE [f1 EXCEPT !.prep_res = ItemsRef, !.phase = "delays"])
    /\ UNCHANGED <<cfgVars, enhVars, cur_retry, flow, bkind, concurrency_limit>>

\* DelayBefore that also delays before the first item.
DelayBeforeEvery(i) == i >= 0

\* if (i > 0 && this.batchDelay), in a flow whose batchDelay is > 0: whether a
\* delay precedes the item at (0-based) index i.
DelayBefore(i) == i > 0

\* if (i > 0 && this.batchDelay) await new Promise(... setTimeout ...)
RunWithDelaysDelay ==
    /\ bkind = DelayedFlow
    /\ frame.phase = "delays"
    /\ bat.i < Len(bat.items)
    /\ DelayBefore(bat.i)
    /\ FrameStep([Logged(frame, Call("delay", "batchDelay", Undefined, Undefined,
                                     "ret", Undefined))
                  EXCEPT !.phase = "item"])
    /\ UNCHANGED <<cfgVars, enhVars, cur_retry, flow, batVars>>

\* const result = await this.batchProcessor.exec(items[i]); results.push(result)
\* EnhancedBatchNode.exec calls processItem and records the outcome.
RunWithDelaysItem ==
    /\ bkind = DelayedFlow
    /\ bat.i < Len(bat.items)
    /\ \/ frame.phase = "item"
       \/ frame.phase = "delays" /\ ~ DelayBefore(bat.i)
    /\ LET idx == bat.i + 1
           batchIndex == Len(metrics.batchMetrics)
       IN  \/ /\ bat' = [bat EXCEPT !.started = Append(@, idx), !.i = @ + 1,
                                    !.results = Append(@, Process(bat.items[idx]))]
              /\ metrics' = [metrics EXCEPT !.batchMetrics =
                                Append(@, BatchMetric(batchIndex, TRUE))]
              /\ FrameStep([Logged(frame, Call("exec", bat.items[idx], Undefined,
                                               Undefined, "ret", Process(bat.items[idx])))
                            EXCEPT !.phase = "delays"])
           \/ \E e \in Errors :
              /\ bat' = [bat EXCEPT !.started = Append(@, idx), !.failed = Append(@, idx)]
              /\ metrics' = [metrics EXCEPT !.batchMetrics =
                                Append(@, BatchMetric(batchIndex, FALSE))]
              /\ FrameStep([Logged(frame, Call("exec", bat.items[idx], Undefined,
                                               Undefined, "throw", e))
                            EXCEPT !.last_error = e, !.phase = "itemfallback"])
    /\ UNCHANGED <<cfgVars, enhRest, cur_retry, flow, bkind, concurrency_limit>>

\* catch (error) { if (this.batchProcessor.execFallback) { results.push(await
\* this.batchProcessor.execFallback(items[i], error)) } }: the inherited default
\* re-throws the error, an override returns a value or throws.
RunWithDelaysFallback ==
    /\ bkind = DelayedFlow
    /\ frame.phase = "itemfallback"
    /\ LET item == bat.items[bat.i + 1]
       IN  \/ \E v \in FallbackVals :
                /\ bat' = [bat EXCEPT !.results = Append(@, v), !.i = @ + 1]
                /\ FrameStep([Logged(frame, Call("fallback", item, frame.last_error,
                                                 Undefined, "ret", v))
                              EXCEPT !.phase = "delays"])
           \/ \E e \in {frame.last_error, FallbackError} :
                /\ bat' = bat
                /\ FrameStep(Reject(
                        Logged(frame, Call("fallback", item, frame.last_error,
                                           Undefined, "throw", e)),
                        e))
    /\ UNCHANGED <<cfgVars, enhVars, cur_retry, flow, bkind, concurrency_limit>>

\* return this.batchProcessor.post(shared, items, results)
RunWithDelaysPost ==
    /\ bkind = DelayedFlow
    /\ frame.phase = "delays"
    /\ bat.i >= Len(bat.items)
    /\ FrameStep([frame EXCEPT !.exec_res = ResultsRef, !.phase = "post"])
    /\ UNCHANGED <<cfgVars, enhVars, cur_retry, flow, batVars>>

\* ------------------------------------------------- EnhancedBatchFlow.run
\* An EnhancedBatchFlow without batchDelay hands the run to the library flow
\* (return super.run(shared)), which runs the batch node it wraps: an
\* EnhancedBatchNode, whose items the library's BatchNode._exec takes one at a
\* time, each through its own retry loop around exec(item), or a
\* ParallelBatchNode, which overrides _exec.
EnhancedBatchKind == "EnhancedBatchNode"

\* EnhancedBatchNode.prep: return this.getInputItems(shared)
EnhancedBatchPrep ==
    /\ bkind = EnhancedBatchKind
    /\ frame.phase = "prep"
    /\ \E list \in ItemLists :
        /\ bat' = [bat EXCEPT !.prepared = list, !.items = list]
        /\ FrameStep([Logged(frame, Call("prep", flow.shared, Undefined, Undefined,
                                         "ret", ItemsRef))
                      EXCEPT !.prep_res = ItemsRef, !.phase = "items"])
    /\ UNCHANGED <<cfgVars, enhVars, cur_retry, flow, bkind, concurrency_limit>>

\* EnhancedBatchNode.exec(item), called for the next item or, after a failed
\* attempt that was not the item's last, for the same item again: processItem
\* is awaited and the outcome is recorded in performanceMetrics.
EnhancedBatchItem ==
    /\ bkind = EnhancedBatchKind
    /\ frame.phase = "items"
    /\ bat.i < Len(bat.items)
    /\ LET idx == bat.i + 1
           batchIndex == Len(metrics.batchMetrics)
       IN  \/ /\ bat' = [bat EXCEPT !.started = Append(@, idx), !.i = @ + 1,
                                    !.results = Append(@, Process(bat.items[idx]))]
              /\ metrics' = [metrics EXCEPT !.batchMetrics =
                                Append(@, BatchMetric(batchIndex, TRUE))]
              /\ FrameStep([Logged(frame, Call("exec", bat.items[idx], Undefined,
                                               Undefined, "ret", Process(bat.items[idx])))
                            EXCEPT !.attempt = 0])
           \/ \E e \in Errors :
              /\ bat' = [bat EXCEPT !.started = Append(@, idx), !.failed = Append(@, idx)]
              /\ metrics' = [metrics EXCEPT !.batchMetrics =
                                Append(@, BatchMetric(batchIndex, FALSE))]
              /\ FrameStep([Logged(frame, Call("exec", bat.items[idx], Undefined,
                                               Undefined, "throw", e))
                            EXCEPT !.last_error = e,
                                   !.attempt = IF @ + 1 < max_retries[frame.node]
                                               THEN @ + 1 ELSE 0,
                                   !.phase = IF frame.attempt + 1 < max_retries[frame.node]
                                             THEN "items" ELSE "itemfallback"])
    /\ UNCHANGED <<cfgVars, enhRest, cur_retry, flow, bkind, concurrency_limit>>

\* execFallback(item, error) after the item's last failed attempt: the inherited
\* default re-throws the error, an override returns a value or throws.
EnhancedBatchFallback ==
    /\ bkind = EnhancedBatchKind
    /\ frame.phase = "itemfallback"
    /\ LET item == bat.items[bat.i + 1]
       IN  \/ \E v \in FallbackVals :
                /\ bat' = [bat EXCEPT !.results = Append(@, v), !.i = @ + 1]
                /\ FrameStep([Logged(frame, Call("fallback", item, frame.last_error,
                                                 Undefined, "ret", v))
                              EXCEPT !.phase = "items"])
           \/ \E e \in {frame.last_error, FallbackError} :
                /\ bat' = bat
                /\ FrameStep(Reject(
                        Logged(frame, Call("fallback", item, frame.last_error,
                                           Undefined, "throw", e)),
                        e))
    /\ UNCHANGED <<cfgVars, enhVars, cur_retry, flow, bkind, concurrency_limit>>

\* Every item has its result: the result array goes to post.
EnhancedBatchReturn ==
    /\ bkind = EnhancedBatchKind
    /\ frame.phase = "items"
    /\ bat.i >= Len(bat.items)
    /\ FrameStep([frame EXCEPT !.exec_res = ResultsRef, !.phase = "post"])
    /\ UNCHANGED <<cfgVars, enhVars, cur_retry, flow, batVars>>

\* EnhancedBatchNode.getBatchStats()
GetBatchStats(performanceMetrics) ==
    LET totalItems == Len(performanceMetrics)
        successCount == Len(SelectSeq(performanceMetrics, LAMBDA m : m.success))
    IN  [totalItems |-> totalItems, successCount |-> successCount,
         failureCount |-> totalItems - successCount]

\* ------------------------------------------------------------ AsyncBatchFlow
\* How the caller runs the batch flow: by run_async(shared), which
\* AsyncBatchFlow inherits from AsyncFlow unchanged, or by the two methods the
\* class itself defines, prep_async(shared) and then exec_async(prep_res).
BatchFlowRunAsync == "AsyncBatchFlow.run_async"
BatchFlowExecAsync == "AsyncBatchFlow.prep_async/exec_async"
BatchFlowKinds == {BatchFlowRunAsync, BatchFlowExecAsync}

\* The parameter sets prep_async yields.
ParamNames == <<"p1", "p2", "p3", "p4">>
ParamLists == {[j \in 1..n |-> ParamNames[j]] : n \in 0..MaxParams}

\* this.shared of the batch flow: nothing assigns it.
ThisShared == Undefined

\* {} as T: a new object.
FreshStore == "{}"

\* this.shared || {} as T
StoreArg(thisShared) == Or(thisShared, FreshStore)

\* const prep_res = await batchFlow.prep_async(shared)
BatchFlowPrep ==
    /\ bkind = BatchFlowExecAsync
    /\ flow.state = "batch_prep"
    /\ bat' = [bat EXCEPT !.items = bat.prepared, !.i = 0]
    /\ flow' = [flow EXCEPT !.state = "batch_loop"]
    /\ UNCHANGED <<cfgVars, enhVars, cur_retry, frame, active, trace, bkind,
                   concurrency_limit>>

\* for (const params of prep_res) { flow_instance = this.create_flow_instance(params)
\* (this); flow_instance.run_async(this.shared || {}) is called.
BatchFlowIterate ==
    /\ bkind = BatchFlowExecAsync
    /\ flow.state = "batch_loop"
    /\ bat.i < Len(bat.items)
    /\ bat' = [bat EXCEPT !.started = Append(@, bat.i + 1), !.waiting = TRUE]
    /\ flow' = [NewFlow EXCEPT !.shared = StoreArg(ThisShared), !.runs = flow.runs]
    /\ frame' = NoFrame
    /\ trace' = <<>>
    /\ UNCHANGED <<cfgVars, enhVars, cur_retry, active, bkind, concurrency_limit>>

\* await flow_instance.run_async(...) resumes: the next parameter set, or the
\* rejection leaves exec_async.
BatchFlowNext ==
    /\ bkind = BatchFlowExecAsync
    /\ bat.waiting
    /\ flow.state \in {"resolved", "rejected"}
    /\ bat' = [bat EXCEPT !.i = @ + 1, !.waiting = FALSE]
    /\ flow' = [flow EXCEPT !.state = IF flow.state = "resolved"
                                      THEN "batch_loop" ELSE "batch_rejected"]
    /\ UNCHANGED <<cfgVars, enhVars, cur_retry, frame, active, trace, bkind,
                   concurrency_limit>>

\* The for loop of exec_async is done: exec_async returns.
BatchFlowDone ==
    /\ bkind = BatchFlowExecAsync
    /\ flow.state = "batch_loop"
    /\ bat.i >= Len(bat.items)
    /\ flow' = [flow EXCEPT !.state = "batch_done"]
    /\ UNCHANGED <<cfgVars, enhVars, cur_retry, frame, active, trace, batVars>>

\* ------------------------------------------------------------ MapReduceFlow
\* The flow classes of the map-reduce module.
MapReduceClasses == {"MapReduceFlow", "BatchMapReduceFlow"}

\* mapNode and reduceNode of the MapReduceFlow constructor.
MapNodeId == "A"
ReduceNodeId == "B"

\* mapNode.on('reduce', reduceNode): the node the library flow runs after
\* `node` returned `action`.
Successor(node, action) ==
    IF node = MapNodeId /\ action = "reduce" THEN ReduceNodeId ELSE Undefined

\* The reduce functions and initial values a flow is built with: "join"
\* is (acc, x) => acc + ',' + x and "first" is (acc, x) => acc.
ReduceFns == {"join", "first"}
InitialValues == {Zero, "init"}

\* this.reduceFn(accumulator, results[i], i)
ReduceFn(f, acc, x) == IF f = "join" THEN acc \o "," \o x ELSE acc

\* The state object BatchMapReduceFlow.run builds and passes on as `items`.
BatchStateRef == "state{}"

\* The indexed elements of a value that loops bounded by its .length see: the
\* elements of an array; none for an object that is no array (i < undefined
\* is false).
Elements(ref, array) == IF ref \in {ItemsRef, ResultsRef} THEN array ELSE <<>>

\* The errors the map-reduce classes throw.
NoMapResults == "No map results available for reduction"
ProduceError == "Map-reduce operation failed to produce result"
BatchProduceError == "Batch map-reduce operation failed to produce result"
BatchesTypeError == "TypeError: shared.batches is undefined"

\* MapReduceFlow.run(items): state = {items, currentStage: 'mapping'};
\* if (!items || items.length === 0) return this.initialValue;
\* await super.run(state) starts the library flow on mapNode.
MapReduceRun ==
    /\ mapred.class = "MapReduceFlow"
    /\ flow.state = "ready"
    /\ \E items \in ItemLists :
        IF Len(items) = 0
        THEN /\ flow' = [flow EXCEPT !.state = "resolved", !.runs = @ + 1]
             /\ mapred' = [mapred EXCEPT !.items = items, !.result = mapred.initialValue]
             /\ UNCHANGED <<store, frame, active, trace>>
        ELSE /\ flow' = [flow EXCEPT !.state = "await", !.current_node = MapNodeId,
                                     !.runs = @ + 1]
             /\ mapred' = [mapred EXCEPT !.items = items]
             /\ store' = [EmptyStore EXCEPT !.items = ItemsRef, !.currentStage = "mapping"]
             /\ frame' = NewFrame(MapNodeId, "prep")
             /\ active' = active + 1
             /\ trace' = <<[node |-> MapNodeId, ret |-> Pending]>>
    /\ UNCHANGED <<cfgVars, memo, parked, deco, cli, metrics, log, cur_retry, batVars>>

\* BatchMapReduceFlow.run(items): state = {items, batches: [], currentStage};
\* await super.run(state) is MapReduceFlow.run with that state object as its
\* `items`: the object is truthy and its length is undefined, so the library
\* flow is started on mapNode with {items: state, currentStage: 'mapping'}.
BatchMapReduceRun ==
    /\ mapred.class = "BatchMapReduceFlow"
    /\ flow.state = "ready"
    /\ \E items \in ItemLists :
        /\ flow' = [flow EXCEPT !.state = "await", !.current_node = MapNodeId,
                                !.runs = @ + 1]
        /\ mapred' = [mapred EXCEPT !.items = items]
        /\ store' = [EmptyStore EXCEPT !.items = BatchStateRef, !.currentStage = "mapping"]
        /\ frame' = NewFrame(MapNodeId, "prep")
        /\ active' = active + 1
        /\ trace' = <<[node |-> MapNodeId, ret |-> Pending]>>
    /\ UNCHANGED <<cfgVars, memo, parked, deco, cli, metrics, log, cur_retry, batVars>>

\* EnhancedMapNode.prep: shared.currentStage = 'mapping'; return shared.items
MapPrep ==
    /\ mapred.class \in MapReduceClasses
    /\ frame.node = MapNodeId
    /\ frame.phase = "prep"
    /\ store' = [store EXCEPT !.currentStage = "mapping"]
    /\ bat' = [bat EXCEPT !.prepared = Elements(store.items, mapred.items)]
    /\ FrameStep([Logged(frame, Call("prep", flow.shared, Undefined, Undefined,
                                     "ret", store.items))
                  EXCEPT !.prep_res = store.items, !.phase = "exec"])
    /\ UNCHANGED <<cfgVars, memo, parked, deco, cli, metrics, mapred, log, cur_retry, flow, bkind,
                   concurrency_limit>>

\* EnhancedMapNode.post: shared.mapResults = execRes;
\* shared.currentStage = 'reducing'; return 'reduce'
MapPost ==
    /\ mapred.class \in MapReduceClasses
    /\ frame.node = MapNodeId
    /\ frame.phase = "post"
    /\ store' = [store EXCEPT !.mapResults = frame.exec_res, !.currentStage = "reducing"]
    /\ FrameStep([Logged(frame, Call("post", flow.shared, frame.prep_res,
                                     frame.exec_res, "ret", "reduce"))
                  EXCEPT !.ret = "reduce", !.phase = "resolved"])
    /\ UNCHANGED <<cfgVars, memo, parked, deco, cli, metrics, mapred, log, cur_retry, flow, batVars>>

\* The library flow runs the successor of the node that returned an action.
MapReduceNext ==
    /\ mapred.class \in MapReduceClasses
    /\ flow.state = "await"
    /\ frame.phase = "resolved"
    /\ Truthy(Successor(frame.node, frame.ret))
    /\ LET next == Successor(frame.node, frame.ret)
       IN  /\ flow' = [flow EXCEPT !.current_node = next, !.current_action = frame.ret]
           /\ frame' = NewFrame(next, "prep")
           /\ active' = active + 1
           /\ trace' = Append(trace, [node |-> next, ret |-> Pending])
    /\ UNCHANGED <<cfgVars, enhVars, cur_retry, batVars>>

\* EnhancedReduceNode.prep: if (!shared.mapResults) throw ...;
\* return {results: shared.mapResults, initialValue: this.initialValue}
ReducePrep ==
    /\ frame.node = ReduceNodeId
    /\ frame.phase = "prep"
    /\ IF Truthy(store.mapResults)
       THEN FrameStep([Logged(frame, Call("prep", flow.shared, Undefined, Undefined,
                                          "ret", "{results, initialValue}"))
                       EXCEPT !.prep_res = "{results, initialValue}",
                              !.phase = "reduce_start"])
       ELSE FrameStep(Reject(
                Logged(frame, Call("prep", flow.shared, Undefined, Undefined,
                                   "throw", NoMapResults)),
                NoMapResults))
    /\ UNCHANGED <<cfgVars, enhVars, cur_retry, flow, batVars>>

\* EnhancedReduceNode.processAsync is entered: let accumulator = initialValue
ReduceStart ==
    /\ frame.node = ReduceNodeId
    /\ frame.phase = "reduce_start"
    /\ mapred' = [mapred EXCEPT !.accumulator = mapred.initialValue, !.i = 0]
    /\ FrameStep([frame EXCEPT !.phase = "reduce"])
    /\ UNCHANGED <<cfgVars, memo, parked, deco, cli, metrics, store, log, cur_retry, flow, batVars>>

\* for (i < results.length) accumulator = await Promise.resolve(
\* this.reduceFn(accumulator, results[i], i)); a throw of reduceFn leaves
\* processAsync: EnhancedAsyncNode.exec records the failure and re-throws,
\* and execFallback is next (it was the node's only attempt).
ReduceStep ==
    /\ frame.node = ReduceNodeId
    /\ frame.phase = "reduce"
    /\ LET results == Elements(store.mapResults, bat.results)
       IN  /\ mapred.i < Len(results)
           /\ \/ /\ mapred' = [mapred EXCEPT
                                !.accumulator = ReduceFn(mapred.reduceFn, @,
                                                         results[mapred.i + 1]),
                                !.i = @ + 1]
                 /\ UNCHANGED <<metrics, frame, active, trace>>
              \/ \E e \in Errors :
                 /\ metrics' = [metrics EXCEPT !.performanceMetrics =
                                    Append(@, PerformanceMetric(FALSE, e))]
                 /\ FrameStep([Logged(frame, Call("exec", ExecArg(frame), Undefined,
                                                  Undefined, "throw", e))
                               EXCEPT !.last_error = e, !.phase = "fallback"])
                 /\ UNCHANGED mapred
    /\ UNCHANGED <<cfgVars, memo, parked, deco, cli, store, log, cur_retry, flow, batVars>>

\* return accumulator: EnhancedAsyncNode.exec records the success and returns.
ReduceReturn ==
    /\ frame.node = ReduceNodeId
    /\ frame.phase = "reduce"
    /\ mapred.i >= Len(Elements(store.mapResults, bat.results))
    /\ metrics' = [metrics EXCEPT !.performanceMetrics =
                        Append(@, PerformanceMetric(TRUE, Undefined))]
    /\ FrameStep([Logged(frame, Call("exec", ExecArg(frame), Undefined, Undefined,
                                     "ret", mapred.accumulator))
                  EXCEPT !.exec_res = mapred.accumulator, !.phase = "post"])
    /\ UNCHANGED <<cfgVars, enhRest, cur_retry, flow, batVars>>

\* EnhancedReduceNode.post: shared.reduceResult = execRes;
\* shared.currentStage = 'completed'; return undefined
ReducePost ==
    /\ frame.node = ReduceNodeId
    /\ frame.phase = "post"
    /\ store' = [store EXCEPT !.reduceResult = frame.exec_res,
                              !.currentStage = "completed"]
    /\ FrameStep([Logged(frame, Call("post", flow.shared, frame.prep_res,
                                     frame.exec_res, "ret", Undefined))
                  EXCEPT !.ret = Undefined, !.phase = "resolved"])
    /\ UNCHANGED <<cfgVars, memo, parked, deco, cli, metrics, mapred, log, cur_retry, flow, batVars>>

\* What MapReduceFlow.run does once super.run(state) has settled with
\* `thrown` (undefined: it resolved): re-throw; if (!state.reduceResult) throw
\* ...; return state.reduceResult.
MapReduceOutcome(thrown, st) ==
    IF Truthy(thrown) THEN [out |-> "throw", val |-> thrown]
    ELSE IF ~ Truthy(st.reduceResult) THEN [out |-> "throw", val |-> ProduceError]
    ELSE [out |-> "ret", val |-> st.reduceResult]

\* What BatchMapReduceFlow.run does once super.run(state) has settled with
\* `inner`: re-throw; if (!state.finalResult) throw ...; return state.finalResult.
BatchMapReduceOutcome(inner, finalResult) ==
    IF inner.out = "throw" THEN inner
    ELSE IF ~ Truthy(finalResult) THEN [out |-> "throw", val |-> BatchProduceError]
    ELSE [out |-> "ret", val |-> finalResult]

\* The library flow has run its last node, or a node threw: EnhancedAsyncFlow.run
\* records the run in flowMetrics and returns or re-throws, and the run methods
\* of the map-reduce classes go on.  After the last node the library may call the
\* flow object's post, which BatchMapReduceFlow overrides: it is handed the inner
\* store, whose batches is undefined, so shared.batches.forEach throws.
MapReduceSettle ==
    /\ mapred.class \in MapReduceClasses
    /\ flow.state = "await"
    /\ Settled(frame)
    /\ ~ (frame.phase = "resolved" /\ Truthy(Successor(frame.node, frame.ret)))
    /\ \E postCalled \in
            IF mapred.class = "BatchMapReduceFlow" /\ frame.phase = "resolved"
            THEN BOOLEAN ELSE {FALSE} :
        LET thrown == IF frame.phase = "rejected" THEN frame.error
                      ELSE IF postCalled THEN BatchesTypeError ELSE Undefined
            inner == MapReduceOutcome(thrown, store)
            outcome == IF mapred.class = "BatchMapReduceFlow"
                       THEN BatchMapReduceOutcome(inner, mapred.finalResult)
                       ELSE inner
        IN  /\ metrics' = [metrics EXCEPT !.flowMetrics =
                                RecordRun(@, ~ Truthy(thrown), thrown)]
            /\ flow' = IF outcome.out = "throw"
                       THEN [flow EXCEPT !.state = "rejected", !.error = outcome.val]
                       ELSE [flow EXCEPT !.state = "resolved"]
            /\ mapred' = IF outcome.out = "ret"
                         THEN [mapred EXCEPT !.result = outcome.val] ELSE mapred
    /\ UNCHANGED <<cfgVars, memo, parked, deco, cli, store, log, cur_retry, frame, active, trace, batVars>>

\* ------------------------------------------------------------- TypeSafeNode
\* A TypeSafeNode built with a validator, and one built without.
TypeSafeValidated == "TypeSafeNode(validator)"
TypeSafePlain == "TypeSafeNode()"
TypeSafeKinds == {TypeSafeValidated, TypeSafePlain}

\* The values of the store's input field: a string and a number.
StoreInputs == {"valid_input", "123"}

\* The validator: typeof shared === 'object' && shared !== null &&
\* 'input' in shared && typeof shared.input === 'string'
Validate(st) == st.input = "valid_input"

\* validator.getValidationErrors(shared), joined with ', '.
GetValidationErrors(st) ==
    IF st.input = Undefined THEN "Missing required property: input"
    ELSE IF ~ Validate(st) THEN "Property \"input\" must be a string"
    ELSE ""

\* TypeSafeNode.run, before super.run: what it throws (undefined: nothing).
\* if (this.validator && !this.validator.validate(shared))
\*   throw new TypeError(`Invalid shared store: ${errors.join(', ')}`)
ValidationError(kind, st) ==
    IF kind = TypeSafeValidated /\ ~ Validate(st)
    THEN "TypeError: Invalid shared store: " \o GetValidationErrors(st)
    ELSE Undefined

\* A call that throws `thrown` rejects; otherwise the node's lifecycle starts.
EnterLifecycle(thrown) ==
    IF Truthy(thrown)
    THEN /\ flow' = [flow EXCEPT !.state = "rejected", !.error = thrown, !.runs = @ + 1]
         /\ UNCHANGED <<frame, active, trace>>
    ELSE /\ flow' = [flow EXCEPT !.state = "await", !.current_node = start,
                                 !.runs = @ + 1]
         /\ frame' = NewFrame(start, "prep")
         /\ active' = active + 1
         /\ trace' = <<[node |-> start, ret |-> Pending]>>

\* The caller runs the node directly: node.run(shared).
TypeSafeRun ==
    /\ bkind \in TypeSafeKinds
    /\ flow.state = "ready"
    /\ log' = Append(log, Event("node.run", Pending, Undefined))
    /\ EnterLifecycle(ValidationError(bkind, store))
    /\ UNCHANGED <<cfgVars, memo, parked, deco, cli, metrics, store, mapred, cur_retry, batVars>>

\* The caller runs a library Flow whose start node is the TypeSafeNode:
\* new Flow(node).run(shared).  The library starts the node either through its
\* public run, which TypeSafeNode overrides, or through the internal _run,
\* which it does not.
TypeSafeFlowRun ==
    /\ bkind \in TypeSafeKinds
    /\ flow.state = "ready"
    /\ log' = Append(log, Event("flow.run", Pending, Undefined))
    /\ \E viaRun \in BOOLEAN :
        EnterLifecycle(IF viaRun THEN ValidationError(bkind, store) ELSE Undefined)
    /\ UNCHANGED <<cfgVars, memo, parked, deco, cli, metrics, store, mapred, cur_retry, batVars>>

\* post(shared, prepRes, execRes) of a node that stores its result:
\* shared.output = execRes; return the action.
StorePostStep ==
    /\ frame.phase = "post"
    /\ \/ \E a \in AllowedActions :
            /\ store' = [store EXCEPT !.output = PostResultArg(frame)]
            /\ FrameStep([Logged(frame, Call("post", flow.shared, frame.prep_res,
                                             PostResultArg(frame), "ret", a))
                          EXCEPT !.ret = a, !.phase = "resolved"])
       \/ /\ store' = store
          /\ FrameStep(Reject(
                Logged(frame, Call("post", flow.shared, frame.prep_res,
                                   PostResultArg(frame), "throw", PostError)),
                PostError))

StorePost ==
    /\ StorePostStep
    /\ UNCHANGED <<cfgVars, memo, parked, deco, cli, metrics, mapred, log, cur_retry, flow, batVars>>

\* The node's promise settles, and with it the call the caller made.
TypeSafeSettle ==
    /\ bkind \in TypeSafeKinds
    /\ flow.state = "await"
    /\ Settled(frame)
    /\ flow' = IF frame.phase = "rejected"
               THEN [flow EXCEPT !.state = "rejected", !.error = frame.error]
               ELSE [flow EXCEPT !.state = "resolved", !.current_action = frame.ret]
    /\ UNCHANGED <<cfgVars, enhVars, cur_retry, frame, active, trace, batVars>>

\* ------------------------------------------------------------------- Spec
Init ==
    /\ \/ wiring \in Wirings /\ start = "A"
       \/ wiring = <<>> /\ start = Undefined
    /\ transitions = ConnectAll(wiring)
    /\ max_retries \in {[n \in NodeIds |-> IF IsAsyncNode(n) THEN m ELSE 1] :
                            m \in 1..MaxRetriesBound}
    /\ wait \in {[n \in NodeIds |-> IF IsAsyncNode(n) THEN w ELSE 0] : w \in WaitVals}
    /\ cur_retry = [n \in NodeIds |-> 0]
    /\ flow = NewFlow
    /\ frame = NoFrame
    /\ active = 0
    /\ trace = <<>>
    /\ bkind = "none"
    /\ concurrency_limit = 0
    /\ bat = NoBatch
    /\ metrics = NoMetrics
    /\ store = EmptyStore
    /\ mapred = NoMapReduce
    /\ log = <<>>
    /\ memo = {}
    /\ parked = NoRun
    /\ deco = NoDeco
    /\ cli = NoCli

Next ==
    \/ FlowRun
    \/ FlowCall
    \/ FlowExit
    \/ FlowResume
    \/ SyncRun
    \/ NodePrep
    \/ NodeExec
    \/ NodeDelay
    \/ NodeFallback
    \/ NodePost

Spec == Init /\ [][Next]_vars

\* A batch node run on its own: node.run_async(shared) / node.run(shared); or
\* EnhancedBatchFlow.run(shared) around its batch node.
InitBatch ==
    /\ wiring = <<>>
    /\ start = "A"
    /\ transitions = EmptyTable
    /\ bkind \in BatchKinds \cup {DelayedFlow}
    /\ max_retries \in {[n \in NodeIds |-> m] :
            m \in IF bkind \in {"ParallelBatchNode", "EnhancedMapNode", DelayedFlow}
                  THEN {1} ELSE 1..MaxRetriesBound}
    /\ wait \in {[n \in NodeIds |-> w] :
            w \in IF bkind \in {"ParallelBatchNode", "EnhancedMapNode", DelayedFlow}
                  THEN {0} ELSE WaitVals}
    /\ concurrency_limit \in
            IF bkind \in {"AsyncParallelBatchNode", "EnhancedMapNode"}
            THEN 1..MaxLimit ELSE {0}
    /\ cur_retry = [n \in NodeIds |-> 0]
    /\ flow = [NewFlow EXCEPT !.state = "direct"]
    /\ frame = NewFrame("A", "prep")
    /\ active = 1
    /\ trace = <<[node |-> "A", ret |-> Pending]>>
    /\ bat = NoBatch
    /\ metrics = NoMetrics
    /\ store = EmptyStore
    /\ mapred = NoMapReduce
    /\ log = <<>>
    /\ memo = {}
    /\ parked = NoRun
    /\ deco = NoDeco
    /\ cli = NoCli

NextBatch ==
    \/ BatchPrep
    \/ BatchExecStart
    \/ BatchSeqItem
    \/ ParDispatch
    \/ BatchItemSettle
    \/ ParCollect
    \/ BatchReturn
    \/ PAllResolve
    \/ PAllReject
    \/ MapDispatch
    \/ MapCollect
    \/ MapReject
    \/ MapReturn
    \/ EnhancedExecFallback
    \/ RunWithDelaysPrep
    \/ RunWithDelaysDelay
    \/ RunWithDelaysItem
    \/ RunWithDelaysFallback
    \/ RunWithDelaysPost
    \/ NodeDelay
    \/ NodeFallback
    \/ NodePost

SpecBatch == InitBatch /\ [][NextBatch]_vars

\* An EnhancedAsyncFlow whose only node is an EnhancedAsyncNode subclass
\* (constructed with the library defaults: one attempt, no wait).
InitEnhanced ==
    /\ wiring = <<>>
    /\ start = "A"
    /\ transitions = EmptyTable
    /\ max_retries = [n \in NodeIds |-> 1]
    /\ wait = [n \in NodeIds |-> 0]
    /\ cur_retry = [n \in NodeIds |-> 0]
    /\ flow = NewFlow
    /\ frame = NoFrame
    /\ active = 0
    /\ trace = <<>>
    /\ bkind = EnhancedNode
    /\ concurrency_limit = 0
    /\ bat = NoBatch
    /\ metrics = NoMetrics
    /\ store = EmptyStore
    /\ mapred = NoMapReduce
    /\ log = <<>>
    /\ memo = {}
    /\ parked = NoRun
    /\ deco = NoDeco
    /\ cli = NoCli

NextEnhanced ==
    \/ EnhancedFlowRun
    \/ EnhancedPrep
    \/ EnhancedExec
    \/ EnhancedExecFallback
    \/ NodePost
    \/ EnhancedFlowSettle

SpecEnhanced == InitEnhanced /\ [][NextEnhanced]_vars

\* The same flow, with run calls that overlap and clearFlowMetrics calls.
NextFlowMetrics ==
    \/ EnhancedFlowRun
    \/ EnhancedPrep
    \/ EnhancedExec
    \/ EnhancedExecFallback
    \/ NodePost
    \/ EnhancedFlowSettle
    \/ EnhancedFlowRunOverlapping
    \/ EnhancedOverlappingSettle
    \/ ClearFlowMetrics

SpecFlowMetrics == InitEnhanced /\ [][NextFlowMetrics]_vars

\* Retry counts below one that a node can be configured with: nothing
\* validates max_retries.
MisconfiguredRetries == {-1, 0}

\* As Init, with the AsyncNodes configured with any max_retries, also below one.
InitAnyRetries ==
    /\ \/ wiring \in Wirings /\ start = "A"
       \/ wiring = <<>> /\ start = Undefined
    /\ transitions = ConnectAll(wiring)
    /\ max_retries \in {[n \in NodeIds |-> IF IsAsyncNode(n) THEN m ELSE 1] :
                            m \in MisconfiguredRetries \cup 1..MaxRetriesBound}
    /\ wait \in {[n \in NodeIds |-> IF IsAsyncNode(n) THEN w ELSE 0] : w \in WaitVals}
    /\ cur_retry = [n \in NodeIds |-> 0]
    /\ flow = NewFlow
    /\ frame = NoFrame
    /\ active = 0
    /\ trace = <<>>
    /\ bkind = "none"
    /\ concurrency_limit = 0
    /\ bat = NoBatch
    /\ metrics = NoMetrics
    /\ store = EmptyStore
    /\ mapred = NoMapReduce
    /\ log = <<>>
    /\ memo = {}
    /\ parked = NoRun
    /\ deco = NoDeco
    /\ cli = NoCli

SpecAnyRetries == InitAnyRetries /\ [][Next]_vars

\* A MapReduceFlow or a BatchMapReduceFlow, built with the default retry
\* settings of its nodes and run once by its caller.
InitMapReduce ==
    /\ wiring = <<>>
    /\ start = MapNodeId
    /\ transitions = EmptyTable
    /\ max_retries = [n \in NodeIds |-> 1]
    /\ wait = [n \in NodeIds |-> 0]
    /\ cur_retry = [n \in NodeIds |-> 0]
    /\ flow = NewFlow
    /\ frame = NoFrame
    /\ active = 0
    /\ trace = <<>>
    /\ bkind = "EnhancedMapNode"
    /\ concurrency_limit \in 1..MaxLimit
    /\ bat = NoBatch
    /\ metrics = NoMetrics
    /\ store = EmptyStore
    /\ mapred \in {[NoMapReduce EXCEPT !.class = c, !.initialValue = v, !.reduceFn = f] :
                        c \in MapReduceClasses, v \in InitialValues, f \in ReduceFns}
    /\ log = <<>>
    /\ memo = {}
    /\ parked = NoRun
    /\ deco = NoDeco
    /\ cli = NoCli

NextMapReduce ==
    \/ MapReduceRun
    \/ BatchMapReduceRun
    \/ MapPrep
    \/ BatchExecStart
    \/ MapDispatch
    \/ BatchItemSettle
    \/ MapCollect
    \/ MapReject
    \/ MapReturn
    \/ EnhancedExecFallback
    \/ MapPost
    \/ MapReduceNext
    \/ ReducePrep
    \/ ReduceStart
    \/ ReduceStep
    \/ ReduceReturn
    \/ ReducePost
    \/ MapReduceSettle

SpecMapReduce == InitMapReduce /\ [][NextMapReduce]_vars

\* What an EnhancedBatchFlow is built around, and how: an EnhancedBatchNode or a
\* ParallelBatchNode without batchDelay, an EnhancedBatchNode with batchDelay.
EnhancedBatchFlows == {EnhancedBatchKind, "ParallelBatchNode", DelayedFlow}

\* An EnhancedBatchFlow built with maxConcurrency = concurrency_limit and run
\* once by its caller.
InitEnhancedBatch ==
    /\ wiring = <<>>
    /\ start = "A"
    /\ transitions = EmptyTable
    /\ bkind \in EnhancedBatchFlows
    /\ max_retries \in {[n \in NodeIds |-> m] :
            m \in IF bkind = EnhancedBatchKind THEN 1..MaxRetriesBound ELSE {1}}
    /\ wait = [n \in NodeIds |-> 0]
    /\ concurrency_limit \in 1..MaxLimit
    /\ cur_retry = [n \in NodeIds |-> 0]
    /\ flow = [NewFlow EXCEPT !.state = "direct"]
    /\ frame = NewFrame("A", "prep")
    /\ active = 1
    /\ trace = <<[node |-> "A", ret |-> Pending]>>
    /\ bat = NoBatch
    /\ metrics = NoMetrics
    /\ store = EmptyStore
    /\ mapred = NoMapReduce
    /\ log = <<>>
    /\ memo = {}
    /\ parked = NoRun
    /\ deco = NoDeco
    /\ cli = NoCli

NextEnhancedBatch ==
    \/ EnhancedBatchPrep
    \/ EnhancedBatchItem
    \/ EnhancedBatchFallback
    \/ EnhancedBatchReturn
    \/ BatchPrep
    \/ BatchExecStart
    \/ BatchItemSettle
    \/ PAllResolve
    \/ PAllReject
    \/ RunWithDelaysPrep
    \/ RunWithDelaysDelay
    \/ RunWithDelaysItem
    \/ RunWithDelaysFallback
    \/ RunWithDelaysPost
    \/ NodePost

SpecEnhancedBatch == InitEnhancedBatch /\ [][NextEnhancedBatch]_vars

\* A TypeSafeNode (library defaults: one attempt, no wait) and a store whose
\* input field is a string or a number.
InitTypeSafe ==
    /\ wiring = <<>>
    /\ start = "A"
    /\ transitions = EmptyTable
    /\ max_retries = [n \in NodeIds |-> 1]
    /\ wait = [n \in NodeIds |-> 0]
    /\ cur_retry = [n \in NodeIds |-> 0]
    /\ flow = NewFlow
    /\ frame = NoFrame
    /\ active = 0
    /\ trace = <<>>
    /\ bkind \in TypeSafeKinds
    /\ concurrency_limit = 0
    /\ bat = NoBatch
    /\ metrics = NoMetrics
    /\ store \in {[EmptyStore EXCEPT !.input = v] : v \in StoreInputs \cup {Undefined}}
    /\ mapred = NoMapReduce
    /\ log = <<>>
    /\ memo = {}
    /\ parked = NoRun
    /\ deco = NoDeco
    /\ cli = NoCli

NextTypeSafe ==
    \/ TypeSafeRun
    \/ TypeSafeFlowRun
    \/ NodePrep
    \/ NodeExec
    \/ NodeFallback
    \/ StorePost
    \/ TypeSafeSettle

SpecTypeSafe == InitTypeSafe /\ [][NextTypeSafe]_vars

\* An AsyncBatchFlow over a graph of AsyncNodes, run by its caller with Store.
InitBatchFlow ==
    /\ wiring \in {<<>>, WiringCycle}
    /\ start = "A"
    /\ transitions = ConnectAll(wiring)
    /\ max_retries \in {[n \in NodeIds |-> IF IsAsyncNode(n) THEN m ELSE 1] :
                            m \in 1..MaxRetriesBound}
    /\ wait = [n \in NodeIds |-> 0]
    /\ cur_retry = [n \in NodeIds |-> 0]
    /\ bkind \in BatchFlowKinds
    /\ flow = IF bkind = BatchFlowRunAsync THEN NewFlow
              ELSE [NewFlow EXCEPT !.state = "batch_prep"]
    /\ frame = NoFrame
    /\ active = 0
    /\ trace = <<>>
    /\ concurrency_limit = 0
    /\ bat \in {[NoBatch EXCEPT !.prepared = ps] : ps \in ParamLists}
    /\ metrics = NoMetrics
    /\ store = EmptyStore
    /\ mapred = NoMapReduce
    /\ log = <<>>
    /\ memo = {}
    /\ parked = NoRun
    /\ deco = NoDeco
    /\ cli = NoCli

NextBatchFlow ==
    \/ BatchFlowPrep
    \/ BatchFlowIterate
    \/ BatchFlowNext
    \/ BatchFlowDone
    \/ FlowRun
    \/ FlowCall
    \/ FlowExit
    \/ FlowResume
    \/ NodePrep
    \/ NodeExec
    \/ NodeFallback
    \/ NodePost

SpecBatchFlow == InitBatchFlow /\ [][NextBatchFlow]_vars

\* ------------------------------------------------------------- properties
CallsOf(fr, m) == SelectSeq(fr.calls, LAMBDA c : c.m = m)

AllThrew(cs) == \A j \in 1..Len(cs) : cs[j].out = "throw"

IsNodeRun(fr) == fr.phase \notin {"idle", "sync"}

\* The target of the edge wired last from n on action a, if any.
EdgeTarget(w, n, a) ==
    LET idx == {i \in 1..Len(w) : w[i][1] = n /\ w[i][2] = a}
    IN  IF idx = {} THEN Undefined
        ELSE w[CHOOSE i \in idx : \A j \in idx : j <= i][3]

\* The node the wiring sends n to on action a: the edge a, else the default edge.
Expected(n, a) ==
    IF EdgeTarget(wiring, n, a) # Undefined THEN EdgeTarget(wiring, n, a)
    ELSE EdgeTarget(wiring, n, "default")

RunsOf(n) == Cardinality({i \in 1..Len(trace) : trace[i].node = n})

RunsReturning(n, a) ==
    Cardinality({i \in 1..Len(trace) : trace[i].node = n /\ trace[i].ret = a})

\* C1: with max_retries = n > 1, once exec has failed k < n times and then
\* returned a value, exec has been invoked exactly k+1 times, fallback is never
\* invoked, and post receives the value the successful attempt returned,
\* whatever that value is.
C1_SuccessAfterRetries ==
    IsNodeRun(frame) =>
        LET ex == CallsOf(frame, "exec")
            fb == CallsOf(frame, "fallback")
            po == CallsOf(frame, "post")
        IN  (/\ max_retries[frame.node] > 1
             /\ ex # <<>>
             /\ ex[Len(ex)].out = "ret")
            => /\ AllThrew(SubSeq(ex, 1, Len(ex) - 1))
               /\ fb = <<>>
               /\ frame.phase # "fallback"
               /\ \A j \in 1..Len(po) : po[j].a3 = ex[Len(ex)].val

C3_FallbackFailureRejects ==
    IsNodeRun(frame) =>
        LET fb == CallsOf(frame, "fallback")
        IN  (fb # <<>> /\ fb[Len(fb)].out = "throw")
            => /\ frame.phase = "rejected"
               /\ frame.error = fb[Len(fb)].val
               /\ CallsOf(frame, "post") = <<>>

\* C3 witness: the default fallback re-raised the error of the last of two
\* failed attempts and the run rejected.
C3_Witness ==
    /\ frame.phase = "rejected"
    /\ Len(CallsOf(frame, "exec")) = 2
    /\ CallsOf(frame, "fallback") # <<>>
    /\ CallsOf(frame, "fallback")[1].out = "throw"
    /\ CallsOf(frame, "fallback")[1].val = CallsOf(frame, "exec")[2].val
    /\ CallsOf(frame, "exec")[1].val # CallsOf(frame, "exec")[2].val

C6_TerminalEnds ==
    \A i \in 1..Len(trace) :
        trace[i].ret = Undefined =>
            /\ i = Len(trace)
            /\ active = 0
            /\ flow.state \in {"await", "resolved"}
            /\ flow.error = Undefined

\* C6 witness: the start node A, which has a default edge, returned undefined
\* and the flow resolved after that single run.
C6_Witness ==
    /\ flow.state = "resolved"
    /\ Len(trace) = 1
    /\ trace[1].ret = Undefined
    /\ Expected("A", "default") = "C"

\* C7: at most one node run is active at any time, and a node run starts
\* only after every earlier node run of the flow run has settled.
C7_Sequential ==
    /\ active \in {0, 1}
    /\ \A i \in 1..(Len(trace) - 1) : trace[i].ret # Pending
    /\ flow.state = "loop" => active = 0
    /\ active = 1 => /\ trace # <<>>
                     /\ frame.node = trace[Len(trace)].node
                     /\ ~ Settled(frame)

\* C7 witness: the second node of a flow run is in its fallback after a
\* retry wait, and is the only active run.
C7_Witness ==
    /\ Len(trace) = 2
    /\ frame.phase = "fallback"
    /\ CallsOf(frame, "delay") # <<>>
    /\ active = 1

\* C8: when a node's run fails, the flow run rejects with that same error, no
\* node is run after it and the failed node is not run again.
C8_ErrorPropagates ==
    \A i \in 1..Len(trace) :
        trace[i].ret = "threw" =>
            /\ i = Len(trace)
            /\ frame.phase = "rejected"
            /\ flow.state \in {"await", "rejected"}
            /\ flow.state = "rejected" => flow.error = frame.error

\* C8 witness: A, which has a default edge, exhausted its retries, its
\* fallback re-raised the last error and the flow rejected with it.
C8_Witness ==
    /\ wiring = WiringCycle
    /\ flow.state = "rejected"
    /\ Len(trace) = 1
    /\ flow.error \in Errors
    /\ CallsOf(frame, "fallback") # <<>>

C10_ResultsAligned ==
    \A j \in 1..Len(frame.calls) :
        (bkind \in BatchKinds /\ frame.calls[j].m = "post") =>
            /\ frame.calls[j].a2 = ItemsRef
            /\ frame.calls[j].a3 = ResultsRef
            /\ Len(bat.results) = Len(bat.prepared)
            /\ \A i \in 1..Len(bat.results) :
                \/ bat.results[i] = Process(bat.prepared[i])
                \/ bkind = "AsyncParallelBatchNode" /\ bat.results[i] = Null

\* EnhancedBatchFlow.runWithDelays hands post the items and, per item, the value
\* exec or the item's fallback returned.
DelayedResultsAligned ==
    \A j \in 1..Len(frame.calls) :
        (/\ bkind = DelayedFlow
         /\ frame.calls[j].m = "post"
         /\ frame.calls[j].a2 = ItemsRef) =>
            /\ frame.calls[j].a3 = ResultsRef
            /\ Len(bat.results) = Len(bat.prepared)
            /\ \A i \in 1..Len(bat.results) :
                \/ bat.results[i] = Process(bat.prepared[i])
                \/ i \in SeqRange(bat.failed) /\ bat.results[i] \in FallbackVals

\* The part of C10 that holds: a result sequence that exec_async / _exec
\* returned is aligned with the items.
BatchResultsAligned ==
    \A j \in 1..Len(frame.calls) :
        (/\ frame.calls[j].m = "exec"
         /\ frame.calls[j].out = "ret"
         /\ frame.calls[j].val = ResultsRef) =>
            /\ Len(bat.results) = Len(bat.prepared)
            /\ \A i \in 1..Len(bat.results) :
                \/ bat.results[i] = Process(bat.prepared[i])
                \/ bkind = "AsyncParallelBatchNode" /\ bat.results[i] = Null

\* How often x occurs in the sequence q.
Count(q, x) == Cardinality({j \in 1..Len(q) : q[j] = x})

\* C11: in a batch node retry and fallback are per item: every fallback call
\* receives one item (never the item list), no item is processed more than
\* max_retries times, and an item is processed again only after its own
\* processing failed, never because a sibling failed.
C11_PerItemRetry ==
    /\ \A j \in 1..Len(frame.calls) :
            frame.calls[j].m = "fallback" =>
                /\ frame.calls[j].a1 # ItemsRef
                /\ frame.calls[j].a1 \in SeqRange(bat.prepared)
    /\ \A idx \in 1..Len(bat.prepared) :
            /\ Count(bat.started, idx) <= max_retries[frame.node]
            /\ Count(bat.started, idx) <= Count(bat.failed, idx) + 1

\* The part of C11 that holds: no item is processed more than max_retries times.
BatchAttemptsBounded ==
    \A idx \in 1..Len(bat.prepared) :
        Count(bat.started, idx) <= max_retries[frame.node]

\* C11, its sibling part alone: an item is processed again only after its own
\* processing failed.
BatchNoSiblingRerun ==
    \A idx \in 1..Len(bat.prepared) :
        Count(bat.started, idx) <= Count(bat.failed, idx) + 1

\* The batch node classes that process their items concurrently.
ConcurrentBatchKinds == {"AsyncParallelBatchNode", "ParallelBatchNode"}

\* The failed item idx was recovered by a fallback called with that item.
Recovered(idx) ==
    \E j \in 1..Len(frame.calls) :
        /\ frame.calls[j].m = "fallback"
        /\ frame.calls[j].a1 = bat.prepared[idx]
        /\ frame.calls[j].out = "ret"

\* post is reached only with every failed item recovered and without a
\* placeholder in the results.
NoPartialPost ==
    \A j \in 1..Len(frame.calls) :
        frame.calls[j].m = "post" =>
            /\ \A idx \in SeqRange(bat.failed) : Recovered(idx)
            /\ \A i \in 1..Len(bat.results) : bat.results[i] # Null

\* C12: in concurrent batch mode an item whose processing failed is recovered
\* by the per-item fallback or the batch is aborted: post is never invoked
\* with a partial or placeholder result, and a run with an unrecovered failed
\* item does not resolve.
C12_FailedItemAborts ==
    bkind \in ConcurrentBatchKinds =>
        /\ NoPartialPost
        /\ frame.phase = "resolved" => \A idx \in SeqRange(bat.failed) : Recovered(idx)

\* The part of C12 that holds: ParallelBatchNode aborts the batch.
ParallelBatchNodeAborts == bkind = "ParallelBatchNode" => NoPartialPost

\* C13: with a concurrency bound N >= 1, AsyncParallelBatchNode and
\* EnhancedMapNode never have more than N item executions in flight at once.
C13_ConcurrencyBound ==
    bkind \in {"AsyncParallelBatchNode", "EnhancedMapNode"} =>
        /\ concurrency_limit >= 1
        /\ Cardinality(bat.inflight) <= concurrency_limit

\* C13 witness: an EnhancedMapNode with more items than its bound has a full
\* chunk in flight, and an AsyncParallelBatchNode could be in the same position.
C13_Witness ==
    /\ bkind = "EnhancedMapNode"
    /\ Len(bat.items) > concurrency_limit
    /\ concurrency_limit = MaxLimit
    /\ Cardinality(bat.inflight) = concurrency_limit

\* An AsyncParallelBatchNode has its second batch in flight.
ParSecondBatchInFlight ==
    /\ bkind = "AsyncParallelBatchNode"
    /\ bat.i > 0
    /\ bat.inflight # {}

RejectedWithItemsInFlight ==
    /\ bkind = "ParallelBatchNode"
    /\ frame.phase = "rejected"
    /\ bat.inflight # {}

\* post was handed an empty result sequence.
EmptyResults(c) == c.a3 = ResultsRef /\ bat.results = <<>>

\* What C15 says of a run whose prep returned an empty sequence.
EmptyBatchHandled ==
    (CallsOf(frame, "prep") # <<>> /\ bat.prepared = <<>>) =>
        LET po == CallsOf(frame, "post")
        IN  /\ bat.started = <<>>
            /\ CallsOf(frame, "exec") = <<>> \/ bkind \in BatchKinds
            /\ Len(po) <= 1
            /\ \A j \in 1..Len(po) : EmptyResults(po[j])
            /\ frame.phase = "resolved" => Len(po) = 1
            /\ frame.phase = "rejected" => Len(po) = 1 /\ po[1].out = "throw"

\* C15: when a batch node's prep returns an empty sequence, the per-item
\* function is never invoked and post is invoked exactly once with an empty
\* result sequence, in every execution mode: sequential, parallel, and
\* EnhancedBatchFlow with batchDelay set.
C15_EmptyBatch == EmptyBatchHandled

\* The part of C15 that holds: the batch node classes run on their own.
EmptyBatchNodes == bkind \in BatchKinds => EmptyBatchHandled

\* The run of the batch flow has completed.
BatchFlowCompleted ==
    \/ bkind = BatchFlowRunAsync /\ flow.state = "resolved"
    \/ bkind = BatchFlowExecAsync /\ flow.state = "batch_done"

\* What C16 says of a batch flow whose parameter preparation yields m sets.
OncePerParamSet ==
    LET m == Len(bat.prepared)
    IN  /\ flow.runs <= m
        /\ flow.state = "ready" => active = 0
        /\ BatchFlowCompleted =>
                /\ flow.runs = m
                /\ bkind = BatchFlowExecAsync => bat.started = [j \in 1..m |-> j]

\* C16: running a batch flow whose parameter preparation yields p1..pm runs
\* the inner flow exactly m times, once per parameter set, in order, each
\* iteration starting only after the one before has completed; with m = 0 the
\* inner flow is not run at all.
C16_OncePerParamSet == bkind \in BatchFlowKinds => OncePerParamSet

\* The part of C16 that holds: exec_async, when called with the parameter
\* sets, iterates once per set, in order, one run at a time.
ExecAsyncOncePerParamSet == bkind = BatchFlowExecAsync => OncePerParamSet

\* exec_async has run the flow once per parameter set, MaxParams times.
ExecAsyncIterated ==
    /\ bkind = BatchFlowExecAsync
    /\ flow.state = "batch_done"
    /\ flow.runs = MaxParams

\* Every prep and post call so far received the store the caller passed.
SameStore ==
    \A j \in 1..Len(frame.calls) :
        frame.calls[j].m \in {"prep", "post"} => frame.calls[j].a1 = Store

\* C17: every prep and post call made during a run, for every node and for
\* every iteration of a batch flow, receives the very store object the caller
\* passed, never a copy or a fresh object.
C17_SameStore == bkind \in BatchFlowKinds => SameStore

\* The part of C17 that holds: AsyncFlow.run_async hands its own argument to
\* every node it runs.
RunAsyncSameStore == bkind # BatchFlowExecAsync => SameStore

\* A second node of a flow run by run_async has had its post called.
SecondNodePosted ==
    /\ bkind # BatchFlowExecAsync
    /\ Len(trace) >= 2
    /\ CallsOf(frame, "post") # <<>>

\* C18: a node configured with max_retries < 1 fails fast, at construction or
\* at its first run, before an exec attempt would be due: its run never gets
\* past the retry loop to post and never resolves with exec skipped.
C18_FailFast ==
    (IsNodeRun(frame) /\ max_retries[frame.node] < 1) =>
        /\ frame.phase \notin {"post", "resolved"}
        /\ CallsOf(frame, "post") = <<>>

\* A node with max_retries < 1 never has exec or fallback called.
ExecSkipped ==
    (IsNodeRun(frame) /\ max_retries[frame.node] < 1) =>
        /\ CallsOf(frame, "exec") = <<>>
        /\ CallsOf(frame, "fallback") = <<>>
        /\ \A j \in 1..Len(frame.calls) :
                frame.calls[j].m = "post" => frame.calls[j].a3 = Undefined

\* A flow whose start node has max_retries = 0 has resolved.
MisconfiguredResolved ==
    /\ max_retries["A"] = 0
    /\ flow.state = "resolved"
    /\ trace # <<>>

\* C19: when an EnhancedAsyncNode's processAsync failed on every attempt and
\* the node does not override execFallback, the node's run does not go on to
\* post and the enclosing flow's run, once settled, has rejected with the
\* processing error.
C19_ProcessingErrorRejects ==
    bkind = EnhancedNode =>
        LET ex == CallsOf(frame, "exec")
        IN  (ex # <<>> /\ Len(ex) = max_retries[frame.node] /\ AllThrew(ex)) =>
                /\ CallsOf(frame, "post") = <<>>
                /\ frame.phase # "resolved"
                /\ flow.state # "resolved"
                /\ flow.state = "rejected" => flow.error = ex[Len(ex)].val

\* What happens instead: the default execFallback turns the failure into the
\* result null, which post receives.
FailureBecomesNull ==
    bkind = EnhancedNode =>
        LET ex == CallsOf(frame, "exec")
            po == CallsOf(frame, "post")
        IN  (ex # <<>> /\ AllThrew(ex)) =>
                /\ frame.phase # "rejected" \/ (po # <<>> /\ po[1].out = "throw")
                /\ \A j \in 1..Len(po) : po[j].a3 = Null

\* An EnhancedAsyncFlow run resolved although processAsync threw.
FailedRunResolved ==
    /\ bkind = EnhancedNode
    /\ flow.state = "resolved"
    /\ CallsOf(frame, "exec") # <<>>
    /\ AllThrew(CallsOf(frame, "exec"))
    /\ metrics.flowMetrics[Len(metrics.flowMetrics)].success

\* The run's exec failed on each of its first n = max_retries attempts and post
\* has been called.
FailedFirstN(fr) ==
    /\ IsNodeRun(fr)
    /\ IsAsyncNode(fr.node)
    /\ Len(CallsOf(fr, "exec")) >= max_retries[fr.node]
    /\ AllThrew(SubSeq(CallsOf(fr, "exec"), 1, max_retries[fr.node]))
    /\ CallsOf(fr, "post") # <<>>

RECURSIVE FoldLeft(_, _, _, _)
FoldLeft(f, acc, xs, i) ==
    IF i < Len(xs) THEN FoldLeft(f, ReduceFn(f, acc, Process(xs[i + 1])), xs, i + 1)
    ELSE acc

\* The run call on the map-reduce flow has settled.
MapReduceSettled == flow.runs > 0 /\ flow.state \in {"resolved", "rejected"}

\* The errors mapFn and reduceFn threw during the run, in the order thrown.
MapFnErrors ==
    LET rejected == SelectSeq(bat.done, LAMBDA d : d.out = "rejected")
    IN  [j \in 1..Len(rejected) |-> rejected[j].val]

ReduceFnErrors ==
    IF frame.node = ReduceNodeId
    THEN LET thrown == SelectSeq(frame.calls, LAMBDA c : c.m = "exec" /\ c.out = "throw")
         IN  [j \in 1..Len(thrown) |-> thrown[j].val]
    ELSE <<>>

UserFnErrors == MapFnErrors \o ReduceFnErrors

\* C21: MapReduceFlow.run, when neither mapFn nor reduceFn throws, returns the
\* left fold of reduceFn over the mapped items in input order starting from
\* initialValue; for the empty list it returns initialValue and neither function
\* is called.
C21_ReturnsLeftFold ==
    (mapred.class = "MapReduceFlow" /\ MapReduceSettled /\ UserFnErrors = <<>>)
        => /\ flow.state = "resolved"
           /\ mapred.result = FoldLeft(mapred.reduceFn, mapred.initialValue,
                                       mapred.items, 0)
           /\ mapred.items = <<>> => (bat.started = <<>> /\ trace = <<>>)

\* A run over a non-empty list whose fold is 0 has rejected, though no function
\* threw.
FalsyFoldRejected ==
    /\ mapred.class = "MapReduceFlow"
    /\ MapReduceSettled
    /\ UserFnErrors = <<>>
    /\ mapred.items # <<>>
    /\ FoldLeft(mapred.reduceFn, mapred.initialValue, mapred.items, 0) = Zero
    /\ flow.state = "rejected"
    /\ flow.error = ProduceError

\* A run over a non-empty list has returned its fold, and a run over the empty
\* list has returned initialValue.
FoldReturned ==
    /\ mapred.class = "MapReduceFlow"
    /\ flow.state = "resolved"
    /\ Len(mapred.items) = MaxItems
    /\ mapred.result = FoldLeft(mapred.reduceFn, mapred.initialValue, mapred.items, 0)

\* C22: when mapFn or reduceFn throws for some item, MapReduceFlow.run rejects
\* with an error that function threw, not with another error and not with a
\* result.
C22_UserErrorRejects ==
    (mapred.class = "MapReduceFlow" /\ MapReduceSettled /\ UserFnErrors # <<>>)
        => /\ flow.state = "rejected"
           /\ flow.error \in SeqRange(UserFnErrors)

\* Whenever mapFn or reduceFn threw, the run rejected, with an error of the
\* map-reduce classes themselves.
UserErrorReplaced ==
    (mapred.class = "MapReduceFlow" /\ MapReduceSettled /\ UserFnErrors # <<>>)
        => /\ flow.state = "rejected"
           /\ flow.error = IF MapFnErrors # <<>> THEN NoMapResults ELSE ProduceError

\* mapFn threw and the run rejected with the reduce node's error.
MapErrorReplaced ==
    /\ mapred.class = "MapReduceFlow"
    /\ MapReduceSettled
    /\ MapFnErrors # <<>>
    /\ flow.error = NoMapResults

\* reduceFn threw and the run rejected with the flow's generic error.
ReduceErrorReplaced ==
    /\ mapred.class = "MapReduceFlow"
    /\ MapReduceSettled
    /\ ReduceFnErrors # <<>>
    /\ flow.error = ProduceError

\* C23: BatchMapReduceFlow.run returns what MapReduceFlow.run returns for the
\* same functions and items (the left fold of the mapped items in input order;
\* initialValue for the empty list), and every item is mapped exactly once.
C23_BatchEqualsPlain ==
    (mapred.class = "BatchMapReduceFlow" /\ MapReduceSettled /\ UserFnErrors = <<>>)
        => /\ flow.state = "resolved"
           /\ mapred.result = FoldLeft(mapred.reduceFn, mapred.initialValue,
                                       mapred.items, 0)
           /\ \A j \in 1..Len(mapred.items) : Count(bat.started, j) = 1

\* Every run of a BatchMapReduceFlow rejects, and mapFn was called for no item.
BatchRunAlwaysRejects ==
    (mapred.class = "BatchMapReduceFlow" /\ MapReduceSettled)
        => /\ flow.state = "rejected"
           /\ flow.error \in {ProduceError, BatchProduceError, BatchesTypeError}
           /\ bat.started = <<>>

\* A BatchMapReduceFlow run over a full list has rejected.
BatchRunRejected ==
    /\ mapred.class = "BatchMapReduceFlow"
    /\ MapReduceSettled
    /\ Len(mapred.items) = MaxItems
    /\ flow.error = BatchProduceError

\* C24: an EnhancedBatchFlow built with maxConcurrency = N never has more than
\* N item executions of its batch node in flight, whichever batch node it wraps.
C24_MaxConcurrency ==
    bkind \in EnhancedBatchFlows => Cardinality(bat.inflight) <= concurrency_limit

\* The flows that take their items one at a time never have two in flight.
SequentialKindsBounded ==
    bkind \in {EnhancedBatchKind, DelayedFlow} => Cardinality(bat.inflight) <= 1

\* A wrapped ParallelBatchNode has more items in flight than maxConcurrency.
ParallelExceedsLimit ==
    /\ bkind = "ParallelBatchNode"
    /\ Cardinality(bat.inflight) > concurrency_limit

\* C27: after a batch node derived from EnhancedBatchNode has processed a batch
\* of n items, getBatchMetrics has n entries and getBatchStats reports
\* totalItems = n and successCount + failureCount = totalItems.
C27_OneRecordPerItem ==
    (bkind \in EnhancedBatchFlows /\ frame.phase = "resolved")
        => LET stats == GetBatchStats(metrics.batchMetrics)
           IN  /\ Len(metrics.batchMetrics) = Len(bat.items)
               /\ stats.totalItems = Len(bat.items)
               /\ stats.successCount + stats.failureCount = stats.totalItems

\* A ParallelBatchNode that processed a full batch recorded one entry.
ParallelOneRecord ==
    /\ bkind = "ParallelBatchNode"
    /\ frame.phase = "resolved"
    /\ Len(bat.items) = MaxItems
    /\ Len(metrics.batchMetrics) = 1

\* An EnhancedBatchNode whose item succeeded on a retry recorded two entries
\* for that item.
RetryRecordedTwice ==
    /\ bkind = EnhancedBatchKind
    /\ frame.phase = "resolved"
    /\ Len(bat.items) = 1
    /\ Len(metrics.batchMetrics) = 2

\* What holds: without retries, the kinds that run exec per item record one
\* entry per item of a batch they processed without a failure.
OneRecordPerItemSequential ==
    (/\ bkind \in {EnhancedBatchKind, DelayedFlow}
     /\ frame.phase = "resolved"
     /\ max_retries[frame.node] = 1)
        => Len(metrics.batchMetrics) = Len(bat.items)

\* The store a validator rejects was handed to a TypeSafeNode that has one.
InvalidStoreRun(ev) ==
    /\ bkind = TypeSafeValidated
    /\ ~ Validate(store)
    /\ log # <<>> /\ log[1].ev = ev

\* Nothing of the lifecycle ran, the store is as the caller built it, and once
\* the call has settled it has rejected with the TypeError listing the errors.
RejectedUntouched ==
    /\ frame = NoFrame
    /\ store.output = Undefined
    /\ flow.state = "rejected"
    /\ flow.error = "TypeError: Invalid shared store: " \o GetValidationErrors(store)

\* C25: a TypeSafeNode with a validator, run directly or as the start node of a
\* flow on a store that fails validation, rejects with a TypeError listing the
\* validation errors, none of prep, exec, post is invoked and the store is
\* unchanged; a store that passes validation goes through the normal lifecycle.
C25_ValidationGuards ==
    /\ (InvalidStoreRun("node.run") \/ InvalidStoreRun("flow.run")) => RejectedUntouched
    /\ (bkind = TypeSafeValidated /\ Validate(store) /\ flow.runs > 0)
            => frame # NoFrame

\* What holds: the claim for a node that is run directly.
DirectRunValidated ==
    /\ InvalidStoreRun("node.run") => RejectedUntouched
    /\ (bkind \in TypeSafeKinds /\ flow.runs > 0
            /\ ~ (bkind = TypeSafeValidated /\ ~ Validate(store)))
            => frame # NoFrame

\* A flow ran the node's lifecycle on a store its validator rejects, and post
\* wrote to that store.
InvalidStoreProcessed ==
    /\ InvalidStoreRun("flow.run")
    /\ flow.state = "resolved"
    /\ store.output # Undefined

\* A direct run on an invalid store has rejected with the TypeError.
InvalidStoreRejected ==
    /\ InvalidStoreRun("node.run")
    /\ RejectedUntouched

\* The settlements of run calls since the last clearFlowMetrics call, in the
\* order they happened.
RECURSIVE SinceLastClear(_)
SinceLastClear(h) ==
    IF h = <<>> THEN <<>>
    ELSE IF h[Len(h)].ev = "clearFlowMetrics" THEN <<>>
    ELSE LET before == SinceLastClear(SubSeq(h, 1, Len(h) - 1))
         IN  IF h[Len(h)].ev = "settle" THEN Append(before, h[Len(h)]) ELSE before

\* C26: getFlowMetrics holds exactly one record per run call that has finished
\* since the last clearFlowMetrics call, in completion order, with success true
\* iff that run resolved (and the error it rejected with otherwise).
C26_FlowMetricsRecords ==
    bkind = EnhancedNode =>
        LET finished == SinceLastClear(log)
        IN  metrics.flowMetrics =
                [j \in 1..Len(finished) |->
                    FlowMetric(finished[j].out = "resolved", finished[j].val)]

\* C26 witness: of two overlapping runs the second one called rejected first
\* and the first one then resolved; a clear came before the two settled.
C26_Witness ==
    /\ bkind = EnhancedNode
    /\ Clears # <<>>
    /\ \E i \in 1..(Len(log) - 1) : log[i].ev = "run" /\ log[i + 1].ev = "run"
    /\ Len(metrics.flowMetrics) = 2
    /\ ~ metrics.flowMetrics[1].success
    /\ metrics.flowMetrics[2].success
    /\ flow.state = "resolved"

\* The calls of exec and of the fallback made in the node run in progress.
ExecAndFallbackCalls ==
    SelectSeq(frame.calls, LAMBDA c : c.m \in {"exec", "fallback"})

\* C29: the engine hands the store only to prep and post: no call of exec or of
\* the fallback receives the store object, also not as the prepared input.
C29_StoreOnlyToPrepPost ==
    \A j \in 1..Len(ExecAndFallbackCalls) :
        /\ ExecAndFallbackCalls[j].a1 # Store
        /\ ExecAndFallbackCalls[j].a2 # Store

\* An EnhancedAsyncNode's exec was called with the store.
ExecGotStore ==
    /\ bkind = EnhancedNode
    /\ \E j \in 1..Len(ExecAndFallbackCalls) :
        /\ ExecAndFallbackCalls[j].m = "exec"
        /\ ExecAndFallbackCalls[j].a1 = Store

\* An AsyncNode's exec and fallback were called, with the prepared input.
AsyncNodeExecCalled ==
    /\ bkind = "none"
    /\ \E j \in 1..Len(ExecAndFallbackCalls) :
        /\ ExecAndFallbackCalls[j].m = "fallback"
        /\ ExecAndFallbackCalls[j].a1 = frame.prep_res
    /\ \E c \in SeqRange(frame.calls) : c.m = "prep" /\ c.a1 = Store

\* The exec attempts and the waits of the node run in progress, in order.
AttemptsAndDelays ==
    SelectSeq(frame.calls, LAMBDA c : c.m \in {"exec", "delay"})

\* C30: the engine waits this.wait exactly once after each failed exec attempt
\* that is followed by another attempt: every wait comes directly after a
\* failed attempt and directly before the next attempt, a failed attempt
\* followed by another has one wait between the two unless wait is 0, and with
\* wait 0 there is no wait at all.
C30_DelayBetweenAttempts ==
    IsNodeRun(frame) =>
        LET q == AttemptsAndDelays
            w == wait[frame.node]
        IN  /\ \A j \in 1..Len(q) :
                q[j].m = "delay" =>
                    /\ w > 0 /\ q[j].a1 = w
                    /\ j > 1 /\ q[j - 1].m = "exec" /\ q[j - 1].out = "throw"
                    /\ IF j < Len(q) THEN q[j + 1].m = "exec"
                       ELSE frame.phase = "exec"
            /\ \A j \in 1..(Len(q) - 1) :
                (q[j].m = "exec" /\ w > 0) => q[j + 1].m = "delay"
            /\ \A j \in 1..(Len(q) - 1) :
                (q[j].m = "exec" /\ w = 0) => q[j + 1].m = "exec"
            /\ (w > 0 /\ Len(q) > 0 /\ q[Len(q)].m = "exec" /\ q[Len(q)].out = "throw")
                    => frame.phase \in {"delay", "fallback", "post", "resolved", "rejected"}

\* C30 witness: a node with a wait whose every attempt failed has reached its
\* fallback: it waited after each attempt but the last.
C30_Witness ==
    /\ IsNodeRun(frame)
    /\ wait[frame.node] > 0
    /\ max_retries[frame.node] = MaxRetriesBound
    /\ frame.phase = "fallback"
    /\ Len(AttemptsAndDelays) = 2 * MaxRetriesBound - 1
    /\ AttemptsAndDelays[Len(AttemptsAndDelays)].m = "exec"
    /\ AttemptsAndDelays[2].m = "delay"

\* ------------------------------------------- the same flow run a second time
\* One call of a user-written method: the node it was made on, the method, its
\* arguments (for prep and post the contents of the store they are handed
\* count as part of the argument), and what it returned or threw.
UserCall(node, c, st) ==
    [node |-> node, m |-> c.m, a1 |-> c.a1, a2 |-> c.a2, a3 |-> c.a3,
     st |-> IF c.m \in {"prep", "post"} THEN st ELSE EmptyStore,
     out |-> c.out, val |-> c.val]

SameArguments(x, y) ==
    /\ x.node = y.node /\ x.m = y.m
    /\ x.a1 = y.a1 /\ x.a2 = y.a2 /\ x.a3 = y.a3
    /\ x.st = y.st

\* The user-written methods behave as functions of their arguments.
Deterministic(calls) ==
    \A x, y \in calls : SameArguments(x, y) => x.out = y.out /\ x.val = y.val

\* The call the step has just made agrees with every earlier call of the same
\* method on the same arguments, and is remembered.
Replayed ==
    LET u == UserCall(frame.node, frame'.calls[Len(frame'.calls)], store)
    IN  /\ Deterministic(memo \cup {u})
        /\ memo' = memo \cup {u}

DetPrep ==
    /\ NodePrepStep
    /\ Replayed
    /\ UNCHANGED <<cfgVars, parked, deco, cli, metrics, store, mapred, log, cur_retry, flow, batVars>>

DetExec ==
    /\ NodeExecStep
    /\ Replayed
    /\ UNCHANGED <<cfgVars, parked, deco, cli, metrics, store, mapred, log, flow, batVars>>

DetFallback ==
    /\ NodeFallbackStep
    /\ Replayed
    /\ UNCHANGED <<cfgVars, parked, deco, cli, metrics, store, mapred, log, cur_retry, flow, batVars>>

\* The user's post ends the flow within MaxHopsTwice node runs.
DetPost ==
    /\ StorePostStep
    /\ Replayed
    /\ \/ Len(trace) < MaxHopsTwice
       \/ frame'.phase = "rejected"
       \/ IsTerminal(frame'.ret)
       \/ ~ Truthy(NextNode(transitions, frame.node, frame'.ret))
    /\ UNCHANGED <<cfgVars, parked, deco, cli, metrics, mapred, log, cur_retry, flow, batVars>>

\* How a run of the flow ended: whether its promise resolved or rejected, with
\* which error, and what the store it was handed holds.
RunRecord(fl, st) ==
    [ev |-> "run_async", out |-> fl.state, val |-> fl.error, store |-> st]

\* The caller, after the run settled, calls run_async again on the same flow
\* object with a fresh store: current_node and current_action are locals of
\* the call and start over; the flow and node objects, and with them
\* this.cur_retry, are the ones the first run left.
RunAgain ==
    /\ flow.state \in {"resolved", "rejected"}
    /\ flow.runs < MaxRuns
    /\ log' = Append(log, RunRecord(flow, store))
    /\ flow' = [NewFlow EXCEPT !.runs = flow.runs]
    /\ store' = EmptyStore
    /\ frame' = NoFrame
    /\ trace' = <<>>
    /\ UNCHANGED <<cfgVars, memo, parked, deco, cli, metrics, mapred, cur_retry, active, batVars>>

\* A flow over AsyncNodes, built and not yet run.
InitTwice ==
    /\ wiring \in {WiringLoop, WiringCycle}
    /\ start = "A"
    /\ transitions = ConnectAll(wiring)
    /\ max_retries \in {[n \in NodeIds |-> IF IsAsyncNode(n) THEN m ELSE 1] :
                            m \in 1..MaxRetriesBound}
    /\ wait = [n \in NodeIds |-> IF IsAsyncNode(n) THEN 1 ELSE 0]
    /\ cur_retry = [n \in NodeIds |-> 0]
    /\ flow = NewFlow
    /\ frame = NoFrame
    /\ active = 0
    /\ trace = <<>>
    /\ bkind = "none"
    /\ concurrency_limit = 0
    /\ bat = NoBatch
    /\ metrics = NoMetrics
    /\ store = EmptyStore
    /\ mapred = NoMapReduce
    /\ log = <<>>
    /\ memo = {}
    /\ parked = NoRun
    /\ deco = NoDeco
    /\ cli = NoCli

NextTwice ==
    \/ FlowRun
    \/ FlowCall
    \/ FlowExit
    \/ FlowResume
    \/ DetPrep
    \/ DetExec
    \/ NodeDelay
    \/ DetFallback
    \/ DetPost
    \/ RunAgain

SpecTwice == InitTwice /\ [][NextTwice]_vars

\* C28: running the same flow again on a fresh store, with user logic that is
\* a function of its arguments, ends as every earlier run ended: the same
\* outcome of the promise (resolved, or rejected with the same error) and the
\* same final store contents.
C28_SecondRunSame ==
    flow.state \in {"resolved", "rejected"} =>
        \A j \in 1..Len(log) : log[j] = RunRecord(flow, store)

\* A second run has ended after a first run that retried, so that the node
\* instance entered the second run with a cur_retry the first run left, and
\* both runs wrote the store.
C28_Witness ==
    /\ flow.state \in {"resolved", "rejected"}
    /\ flow.runs = 2
    /\ Len(log) = 1
    /\ store.output # Undefined
    /\ \E u \in memo : u.m = "fallback"
    /\ \E u \in memo : u.m = "post" /\ u.node = "B"

\* The positions in the calls of a node run at which method m was called.
CallsAt(calls, m) == {k \in 1..Len(calls) : calls[k].m = m}

\* C31: a flow with batchDelay > 0 delays only between two consecutive items:
\* a delay follows the finished execution (exec, or its fallback) of an item
\* and is followed by the exec of the next item, the items are executed one
\* after the other in the order of the list, and a run that has handled all
\* n >= 1 items has made exactly n - 1 delays.
C31_DelaysBetweenItems ==
    bkind = DelayedFlow =>
        LET calls == frame.calls
            n == Len(bat.items)
        IN  /\ \A k \in CallsAt(calls, "delay") :
                /\ k > 1
                /\ calls[k - 1].m \in {"exec", "fallback"}
                /\ calls[k - 1].out = "ret"
                /\ IF k < Len(calls)
                   THEN calls[k + 1].m = "exec"
                   ELSE frame.phase = "item"
            /\ \A k \in CallsAt(calls, "exec") :
                LET j == Cardinality({h \in CallsAt(calls, "exec") : h <= k})
                IN  /\ j <= n
                    /\ calls[k].a1 = bat.items[j]
                    /\ Cardinality({h \in CallsAt(calls, "delay") : h < k}) = j - 1
            /\ (n >= 1 /\ frame.phase \in {"post", "resolved"}) =>
                    Cardinality(CallsAt(calls, "delay")) = n - 1

\* A run over three items has ended: two delays were made, and one of the
\* items went through its fallback.
C31_Witness ==
    /\ bkind = DelayedFlow
    /\ frame.phase = "resolved"
    /\ Len(bat.items) = 3
    /\ Cardinality(CallsAt(frame.calls, "delay")) = 2
    /\ CallsAt(frame.calls, "fallback") # {}

\* ------------------------------------------------------------ createAsyncNode
\* The retry count of a node made by `new AsyncNode()` with nothing assigned:
\* the library's default of one attempt, or no value at all (the loop test
\* attempt < undefined is false, as with 0).
DefaultMaxRetries == {0, 1}

\* createAsyncNode(config): const node = new AsyncNode(); the four methods
\* are copied from the config when present; return node.  config.max_retries
\* and config.wait are not read.
CreateAsyncNode(config, default) == [max_retries |-> default, wait |-> 0]

\* A subclass of AsyncNode that sets max_retries and wait.
SubclassNode(config) == [max_retries |-> config.max_retries, wait |-> config.wait]

\* A flow whose node A was made by createAsyncNode(config) and whose node B is
\* a subclass with the same settings; the config is kept in the history.
InitCreated ==
    /\ wiring \in {WiringLoop, WiringCycle, WiringBranch}
    /\ start = "A"
    /\ transitions = ConnectAll(wiring)
    /\ \E n \in 1..MaxRetriesBound, w \in WaitVals, d \in DefaultMaxRetries :
        LET config == [max_retries |-> n, wait |-> w]
            created == CreateAsyncNode(config, d)
            subclass == SubclassNode(config)
        IN  /\ max_retries = [A |-> created.max_retries, B |-> subclass.max_retries,
                              C |-> 1]
            /\ wait = [A |-> created.wait, B |-> subclass.wait, C |-> 0]
            /\ log = <<Event("createAsyncNode", n, w)>>
    /\ cur_retry = [n \in NodeIds |-> 0]
    /\ flow = NewFlow
    /\ frame = NoFrame
    /\ active = 0
    /\ trace = <<>>
    /\ bkind = "none"
    /\ concurrency_limit = 0
    /\ bat = NoBatch
    /\ metrics = NoMetrics
    /\ store = EmptyStore
    /\ mapred = NoMapReduce
    /\ memo = {}
    /\ parked = NoRun
    /\ deco = NoDeco
    /\ cli = NoCli

SpecCreated == InitCreated /\ [][Next]_vars

\* The retry loop of the node run is over and every attempt threw.
LoopExhausted(fr) ==
    /\ fr.phase \in {"fallback", "post", "resolved", "rejected"}
    /\ \E j \in 1..Len(fr.calls) : fr.calls[j].m = "prep" /\ fr.calls[j].out = "ret"
    /\ AllThrew(CallsOf(fr, "exec"))

\* C32: a node made by createAsyncNode({max_retries: n, wait: w}) whose exec
\* keeps throwing is attempted n times, with a delay after each attempt but
\* the last when w > 0, as a subclass with the same settings is.
C32_ConfigApplied ==
    (frame.node \in {"A", "B"} /\ LoopExhausted(frame)) =>
        /\ Len(CallsOf(frame, "exec")) = log[1].out
        /\ Len(CallsOf(frame, "delay")) =
                IF log[1].val > 0 THEN log[1].out - 1 ELSE 0

\* The subclass with the same settings is attempted n times.
C32_SubclassApplies ==
    (frame.node = "B" /\ LoopExhausted(frame)) =>
        /\ Len(CallsOf(frame, "exec")) = log[1].out
        /\ Len(CallsOf(frame, "delay")) =
                IF log[1].val > 0 THEN log[1].out - 1 ELSE 0

\* ------------------------------- EnhancedBatchFlow.run with a successor node
\* batchNode.next(B): the batch node A has a successor on the default action.
WiringNext == << <<"A", "default", "B">> >>

\* return super.run(shared), after a node run resolved: the library flow looks
\* up the successor wired for the action post returned and runs it, or ends
\* when there is none; a node run that rejected rejects the flow.
SuperRunNext ==
    /\ bkind = EnhancedBatchKind
    /\ flow.state = "await"
    /\ Settled(frame)
    /\ LET next == NextNode(transitions, frame.node, frame.ret)
       IN  IF frame.phase = "rejected"
           THEN /\ flow' = [flow EXCEPT !.state = "rejected", !.error = frame.error]
                /\ UNCHANGED <<frame, active, trace>>
           ELSE IF Truthy(next)
           THEN /\ flow' = [flow EXCEPT !.current_node = next]
                /\ frame' = NewFrame(next, "sync")
                /\ active' = active + 1
                /\ trace' = Append(trace, [node |-> next, ret |-> Pending])
           ELSE /\ flow' = [flow EXCEPT !.state = "resolved"]
                /\ UNCHANGED <<frame, active, trace>>
    /\ UNCHANGED <<cfgVars, enhVars, cur_retry, batVars>>

\* return this.runWithDelays(shared): the promise settles as the batch node's
\* post did, with the action post returned.
RunWithDelaysSettle ==
    /\ bkind = DelayedFlow
    /\ flow.state = "await"
    /\ Settled(frame)
    /\ flow' = IF frame.phase = "rejected"
               THEN [flow EXCEPT !.state = "rejected", !.error = frame.error]
               ELSE [flow EXCEPT !.state = "resolved", !.current_action = frame.ret]
    /\ UNCHANGED <<cfgVars, enhVars, cur_retry, frame, active, trace, batVars>>

\* An EnhancedBatchFlow around an EnhancedBatchNode, with batchDelay or
\* without, the node with a successor or without, run once by its caller.
InitBatchDelay ==
    /\ wiring \in {<<>>, WiringNext}
    /\ start = "A"
    /\ transitions = ConnectAll(wiring)
    /\ bkind \in {EnhancedBatchKind, DelayedFlow}
    /\ max_retries = [n \in NodeIds |-> 1]
    /\ wait = [n \in NodeIds |-> 0]
    /\ concurrency_limit \in 1..MaxLimit
    /\ cur_retry = [n \in NodeIds |-> 0]
    /\ flow = [NewFlow EXCEPT !.state = "await", !.current_node = "A"]
    /\ frame = NewFrame("A", "prep")
    /\ active = 1
    /\ trace = <<[node |-> "A", ret |-> Pending]>>
    /\ bat = NoBatch
    /\ metrics = NoMetrics
    /\ store = EmptyStore
    /\ mapred = NoMapReduce
    /\ log = <<>>
    /\ memo = {}
    /\ parked = NoRun
    /\ deco = NoDeco
    /\ cli = NoCli

NextBatchDelay ==
    \/ EnhancedBatchPrep
    \/ EnhancedBatchItem
    \/ EnhancedBatchFallback
    \/ EnhancedBatchReturn
    \/ RunWithDelaysPrep
    \/ RunWithDelaysDelay
    \/ RunWithDelaysItem
    \/ RunWithDelaysFallback
    \/ RunWithDelaysPost
    \/ NodePost
    \/ SuperRunNext
    \/ SyncRun
    \/ RunWithDelaysSettle

SpecBatchDelay == InitBatchDelay /\ [][NextBatchDelay]_vars

\* The run resolved after the batch node's post returned an action on which a
\* successor is wired.
SuccessorDue ==
    /\ flow.state = "resolved"
    /\ trace[1].ret \notin {Pending, "threw"}
    /\ Truthy(NextNode(transitions, "A", trace[1].ret))

SuccessorRan ==
    /\ Len(trace) >= 2
    /\ trace[2].node = NextNode(transitions, "A", trace[1].ret)

\* C33: a run of the flow, with batchDelay or without, makes the same
\* lifecycle calls on the same nodes: the successor wired for the action the
\* batch node's post returned is run, and an empty batch hands post the same
\* results.
C33_DelayOnlyTiming ==
    /\ SuccessorDue => SuccessorRan
    /\ \A k \in 1..Len(frame.calls) :
            (frame.node = "A" /\ frame.calls[k].m = "post")
                => frame.calls[k].a3 = ResultsRef

\* Without batchDelay the successor is run.
SuccessorRunsWithoutDelay ==
    (bkind = EnhancedBatchKind /\ SuccessorDue) => SuccessorRan

SuccessorRunsAfterBatch ==
    /\ bkind = EnhancedBatchKind
    /\ SuccessorDue
    /\ SuccessorRan
    /\ trace[2].ret # Pending

\* ------------------------------------------------ chunk sizes of any integer
\* EnhancedMapNode.chunkArray(array, this.maxConcurrency) and
\* BatchMapReduceFlow.prepBatch (this.batchSize), run on their own: the same
\* loop, for (let i = 0; i < length; i += size) push(slice(i, i + size)).
ChunkLoopKinds == {"EnhancedMapNode.chunkArray", "BatchMapReduceFlow.prepBatch"}

\* Chunk sizes nothing validates: the constructors store what they are given.
UnvalidatedSizes == {-1, 0}

\* chunks.push(array.slice(i, i + chunkSize)).  The array grows with every
\* pass of the loop; chunks past the first MaxItems + 1 are not told apart.
PushChunk(chunks, chunk) ==
    IF Len(chunks) <= MaxItems THEN Append(chunks, chunk) ELSE chunks

\* One pass of the loop: the test i < length, the push, i += size.
ChunkLoopStep ==
    /\ bkind \in ChunkLoopKinds
    /\ frame.phase = "chunking"
    /\ bat.i < Len(bat.items)
    /\ bat' = [bat EXCEPT
                !.chunks = PushChunk(@, Slice(bat.items, bat.i, concurrency_limit)),
                !.i = Advance(@, concurrency_limit)]
    /\ UNCHANGED <<cfgVars, enhVars, cur_retry, flow, frame, active, trace, bkind,
                   concurrency_limit>>

\* The loop test fails: return chunks / return batches.
ChunkLoopReturn ==
    /\ bkind \in ChunkLoopKinds
    /\ frame.phase = "chunking"
    /\ bat.i >= Len(bat.items)
    /\ FrameStep([frame EXCEPT !.phase = "resolved", !.ret = "chunks"])
    /\ UNCHANGED <<cfgVars, enhVars, cur_retry, flow, batVars>>

\* An AsyncParallelBatchNode about to run, or one of the chunking loops about
\* to divide an item list, with any integer chunk size.
InitAnySize ==
    /\ wiring = <<>>
    /\ start = "A"
    /\ transitions = EmptyTable
    /\ bkind \in {"AsyncParallelBatchNode"} \cup ChunkLoopKinds
    /\ max_retries \in {[n \in NodeIds |-> m] : m \in 1..MaxRetriesBound}
    /\ wait = [n \in NodeIds |-> 0]
    /\ concurrency_limit \in UnvalidatedSizes \cup 1..MaxLimit
    /\ cur_retry = [n \in NodeIds |-> 0]
    /\ flow = [NewFlow EXCEPT !.state = "direct"]
    /\ IF bkind \in ChunkLoopKinds
       THEN /\ frame = NewFrame("A", "chunking")
            /\ \E list \in ItemLists : bat = [NoBatch EXCEPT !.items = list]
       ELSE /\ frame = NewFrame("A", "prep")
            /\ bat = NoBatch
    /\ active = 1
    /\ trace = <<[node |-> "A", ret |-> Pending]>>
    /\ metrics = NoMetrics
    /\ store = EmptyStore
    /\ mapred = NoMapReduce
    /\ log = <<>>
    /\ memo = {}
    /\ parked = NoRun
    /\ deco = NoDeco
    /\ cli = NoCli

NextAnySize ==
    \/ BatchPrep
    \/ BatchExecStart
    \/ ParDispatch
    \/ BatchItemSettle
    \/ ParCollect
    \/ BatchReturn
    \/ NodePost
    \/ ChunkLoopStep
    \/ ChunkLoopReturn

\* Every await resumes and every loop pass that can be made is made.
SpecAnySize == InitAnySize /\ [][NextAnySize]_vars /\ WF_vars(NextAnySize)

\* C34: whatever the integer chunk size, the chunking loop comes to an end:
\* the node run settles, the chunking function returns.
C34_ChunkingTerminates == <>Settled(frame)

\* With a chunk size of at least one the loops end.
PositiveSizesTerminate == (concurrency_limit >= 1) => <>Settled(frame)

\* With a chunk size of at least one the loop returns what ChunkArray does.
ChunkLoopReturnsChunks ==
    (bkind \in ChunkLoopKinds /\ concurrency_limit >= 1 /\ Settled(frame)) =>
        bat.chunks = ChunkArray(bat.items, concurrency_limit, 0)

\* ------------------------------------- two runs of one flow at the same time
\* What the input field of the two stores holds.
ConcurrentInputs == <<"valid_input", "123">>

\* A fresh store with its input field set.
StoreWith(input) == [EmptyStore EXCEPT !.input = input]

\* The caller, after the run on the first store settled, runs the flow on the
\* second store.
AloneNext ==
    /\ Len(log) = 0
    /\ flow.state \in {"resolved", "rejected"}
    /\ log' = Append(log, RunRecord(flow, store))
    /\ flow' = NewFlow
    /\ store' = StoreWith(ConcurrentInputs[2])
    /\ frame' = NoFrame
    /\ trace' = <<>>
    /\ UNCHANGED <<cfgVars, memo, parked, deco, cli, metrics, mapred, cur_retry, active, batVars>>

\* The caller, after both runs settled, takes two fresh stores with the same
\* inputs and calls run_async on both without awaiting the first:
\* Promise.all(stores.map(s => flow.run_async(s))).
StartConcurrent ==
    /\ Len(log) = 1
    /\ flow.state \in {"resolved", "rejected"}
    /\ log' = Append(log, RunRecord(flow, store))
    /\ flow' = NewFlow
    /\ store' = StoreWith(ConcurrentInputs[1])
    /\ frame' = NoFrame
    /\ trace' = <<>>
    /\ parked' = [NoRun EXCEPT !.store = StoreWith(ConcurrentInputs[2])]
    /\ UNCHANGED <<cfgVars, memo, deco, cli, metrics, mapred, cur_retry, active, batVars>>

\* The run taking steps reaches an await and the other run is resumed: the
\* two exchange places.  The node instances (cur_retry) are the same ones.
Yield ==
    /\ Len(log) = 2
    /\ flow.state \in {"await", "resolved", "rejected"}
    /\ parked' = [flow |-> flow, frame |-> frame, trace |-> trace, store |-> store]
    /\ flow' = parked.flow
    /\ frame' = parked.frame
    /\ trace' = parked.trace
    /\ store' = parked.store
    /\ UNCHANGED <<cfgVars, memo, deco, cli, metrics, mapred, log, cur_retry, active, batVars>>

\* A flow of one retrying AsyncNode whose user-written methods are functions
\* of their arguments, about to be run on the first store.
InitConcurrent ==
    /\ wiring = <<>>
    /\ start = "A"
    /\ transitions = ConnectAll(wiring)
    /\ max_retries = [n \in NodeIds |-> IF IsAsyncNode(n) THEN MaxRetriesBound ELSE 1]
    /\ wait = [n \in NodeIds |-> IF IsAsyncNode(n) THEN 1 ELSE 0]
    /\ cur_retry = [n \in NodeIds |-> 0]
    /\ flow = NewFlow
    /\ frame = NoFrame
    /\ active = 0
    /\ trace = <<>>
    /\ bkind = "none"
    /\ concurrency_limit = 0
    /\ bat = NoBatch
    /\ metrics = NoMetrics
    /\ store = StoreWith(ConcurrentInputs[1])
    /\ mapred = NoMapReduce
    /\ log = <<>>
    /\ memo = {}
    /\ parked = NoRun
    /\ deco = NoDeco
    /\ cli = NoCli

NextConcurrent ==
    \/ FlowRun
    \/ FlowCall
    \/ FlowExit
    \/ FlowResume
    \/ DetPrep
    \/ DetExec
    \/ NodeDelay
    \/ DetFallback
    \/ DetPost
    \/ AloneNext
    \/ StartConcurrent
    \/ Yield

SpecConcurrent == InitConcurrent /\ [][NextConcurrent]_vars

\* The run ended as the run made alone on a store with the same input did.
EndedAsAlone(fl, st) ==
    fl.state \in {"resolved", "rejected"} =>
        \A j \in 1..Len(log) :
            log[j].store.input = st.input => log[j] = RunRecord(fl, st)

\* C35: of two runs of the same flow in flight at the same time on two
\* stores, each ends, whatever the interleaving, with the outcome and the
\* store contents of a run made alone on a store with the same contents.
C35_NoInterference ==
    Len(log) = 2 => EndedAsAlone(flow, store) /\ EndedAsAlone(parked.flow, parked.store)

\* One run has ended, having retried and run its fallback, while the other
\* run was suspended between its exec and its post; both stores were written.
C35_Witness ==
    /\ Len(log) = 2
    /\ flow.state = "resolved"
    /\ store.output # Undefined
    /\ \E k \in 1..Len(frame.calls) : frame.calls[k].m = "fallback"
    /\ parked.flow.state = "await"
    /\ parked.frame.phase = "post"
    /\ parked.frame.exec_res # store.output

\* ------------------------------------------------- CircuitBreaker and Cache
\* The instances of the decorated class.
Instances == {"n1", "n2"}

\* The decorated methods: one wrapped by @CircuitBreaker, one by @Cache.
Decorated == {"CircuitBreaker", "Cache"}

\* The argument the decorated methods are called with, and what the wrapped
\* method of the cached one returns.
Args == {Undefined, Null, "p1"}
CacheVals == {"v1", "v2"}

\* JSON.stringify(args) of the one-element argument list: undefined and null
\* are both written null, a string is written quoted.
Stringify(arg) == IF arg \in {Undefined, Null} THEN "[null]" ELSE "[\"" \o arg \o "\"]"

Keys == {Stringify(a) : a \in Args}

\* cache.get(key) of a key never set.
NoEntry == [set |-> FALSE, value |-> Undefined, expiry |-> 0]

\* One event of the history: a call made on a decorated method of an
\* instance, or its outcome, and the clock reading at that moment.
DecoEvent(ev, c, val, t) ==
    [ev |-> ev, id |-> c.id, inst |-> c.inst, method |-> c.method, arg |-> c.arg,
     val |-> val, t |-> t]

\* failureCount >= options.failureThreshold && now - lastFailureTime < options.recoveryTime
IsOpen(d, now) ==
    d.failureCount >= d.failureThreshold /\ now - d.lastFailureTime < d.recoveryTime

\* Reset that leaves the failure count as it is.
ResetNever(failureCount) == failureCount

\* if (failureCount > 0) failureCount = 0
Reset(failureCount) == IF failureCount > 0 THEN 0 ELSE failureCount

\* cached && Date.now() < cached.expiry
IsFresh(entry, now) == entry.set /\ now < entry.expiry

\* A call of the method wrapped by @CircuitBreaker: const now = Date.now();
\* the call is rejected as open, or originalMethod.apply(this, args) is called
\* and awaited.
BreakerCall ==
    /\ bkind \in {"CircuitBreaker", "decorated"}
    /\ deco.calls < deco.limit
    /\ \E inst \in deco.instances :
        LET c == [id |-> deco.calls + 1, inst |-> inst, method |-> "CircuitBreaker",
                  arg |-> Undefined, start |-> deco.now]
        IN  IF IsOpen(deco, deco.now)
            THEN /\ deco' = [deco EXCEPT !.calls = @ + 1]
                 /\ log' = Append(log, DecoEvent("open", c, "Circuit breaker open", deco.now))
            ELSE /\ deco' = [deco EXCEPT !.calls = @ + 1, !.inflight = @ \cup {c}]
                 /\ log' = Append(log, DecoEvent("invoke", c, Undefined, deco.now))
    /\ UNCHANGED <<cfgVars, memo, parked, cli, metrics, store, mapred, cur_retry, flow, frame,
                   active, trace, batVars>>

\* The wrapped method returns: the failure count is reset, the result returned.
BreakerReturn ==
    /\ \E c \in deco.inflight :
        /\ c.method = "CircuitBreaker"
        /\ deco' = [deco EXCEPT !.inflight = @ \ {c},
                                !.failureCount = Reset(@)]
        /\ log' = Append(log, DecoEvent("ok", c, "v1", deco.now))
    /\ UNCHANGED <<cfgVars, memo, parked, cli, metrics, store, mapred, cur_retry, flow, frame,
                   active, trace, batVars>>

\* The wrapped method throws: failureCount++; lastFailureTime = now (the
\* reading taken when the call was made); the error is re-thrown.
BreakerThrow ==
    /\ \E c \in deco.inflight :
        /\ c.method = "CircuitBreaker"
        /\ deco' = [deco EXCEPT !.inflight = @ \ {c},
                                !.failureCount = @ + 1,
                                !.lastFailureTime = c.start]
        /\ log' = Append(log, DecoEvent("fail", c, "E1", deco.now))
    /\ UNCHANGED <<cfgVars, memo, parked, cli, metrics, store, mapred, cur_retry, flow, frame,
                   active, trace, batVars>>

\* A call of the method wrapped by @Cache: key = JSON.stringify(args); a
\* fresh entry is returned, otherwise originalMethod.apply(this, args) is
\* called and awaited.
CacheCall ==
    /\ bkind \in {"Cache", "decorated"}
    /\ deco.calls < deco.limit
    /\ \E inst \in deco.instances, arg \in Args :
        LET c == [id |-> deco.calls + 1, inst |-> inst, method |-> "Cache",
                  arg |-> arg, start |-> deco.now]
            cached == deco.cache[Stringify(arg)]
        IN  IF IsFresh(cached, deco.now)
            THEN /\ deco' = [deco EXCEPT !.calls = @ + 1]
                 /\ log' = Append(log, DecoEvent("hit", c, cached.value, deco.now))
            ELSE /\ deco' = [deco EXCEPT !.calls = @ + 1, !.inflight = @ \cup {c}]
                 /\ log' = Append(log, DecoEvent("invoke", c, Undefined, deco.now))
    /\ UNCHANGED <<cfgVars, memo, parked, cli, metrics, store, mapred, cur_retry, flow, frame,
                   active, trace, batVars>>

\* The wrapped method returns: cache.set(key, {value: result, expiry:
\* Date.now() + ttl}); return result.
CacheReturn ==
    /\ \E c \in deco.inflight, v \in CacheVals :
        /\ c.method = "Cache"
        /\ deco' = [deco EXCEPT
                        !.inflight = @ \ {c},
                        !.cache[Stringify(c.arg)] =
                            [set |-> TRUE, value |-> v, expiry |-> deco.now + deco.ttl]]
        /\ log' = Append(log, DecoEvent("ok", c, v, deco.now))
    /\ UNCHANGED <<cfgVars, memo, parked, cli, metrics, store, mapred, cur_retry, flow, frame,
                   active, trace, batVars>>

\* The wrapped method throws: the await throws and the wrapper is left.
CacheThrow ==
    /\ \E c \in deco.inflight :
        /\ c.method = "Cache"
        /\ deco' = [deco EXCEPT !.inflight = @ \ {c}]
        /\ log' = Append(log, DecoEvent("fail", c, "E1", deco.now))
    /\ UNCHANGED <<cfgVars, memo, parked, cli, metrics, store, mapred, cur_retry, flow, frame,
                   active, trace, batVars>>

\* The clock readings Date.now() goes through, counted from the first call:
\* enough for a recoveryTime or a ttl to elapse.
MaxTime == MaxDuration

\* Time passes: the next Date.now() reads one more.
Tick ==
    /\ bkind \in Decorated \cup {"decorated"}
    /\ deco.calls > 0
    /\ deco.now < MaxTime
    /\ deco' = [deco EXCEPT !.now = @ + 1]
    /\ UNCHANGED <<cfgVars, memo, parked, cli, metrics, store, mapred, log, cur_retry, flow,
                   frame, active, trace, batVars>>

\* A class with one method decorated @CircuitBreaker({failureThreshold,
\* recoveryTime}) or @Cache(ttl), and two instances of it.
InitDecorated ==
    /\ wiring = <<>>
    /\ start = Undefined
    /\ transitions = EmptyTable
    /\ max_retries = [n \in NodeIds |-> 1]
    /\ wait = [n \in NodeIds |-> 0]
    /\ cur_retry = [n \in NodeIds |-> 0]
    /\ flow = NewFlow
    /\ frame = NoFrame
    /\ active = 0
    /\ trace = <<>>
    /\ concurrency_limit = 0
    /\ bat = NoBatch
    /\ metrics = NoMetrics
    /\ store = EmptyStore
    /\ mapred = NoMapReduce
    /\ log = <<>>
    /\ memo = {}
    /\ parked = NoRun

\* One instance whose method is wrapped by @CircuitBreaker, called often
\* enough for the circuit to open and a call to be rejected.
InitBreaker ==
    /\ InitDecorated
    /\ cli = NoCli
    /\ bkind = "CircuitBreaker"
    /\ \E th \in 1..MaxThreshold, rt \in 1..MaxDuration :
        deco = [NoDeco EXCEPT !.failureThreshold = th, !.recoveryTime = rt,
                              !.instances = {"n1"}, !.limit = th + 1]

NextBreaker ==
    \/ BreakerCall
    \/ BreakerReturn
    \/ BreakerThrow
    \/ Tick

SpecBreaker == InitBreaker /\ [][NextBreaker]_vars

\* One instance whose method is wrapped by @Cache.
InitCache ==
    /\ InitDecorated
    /\ cli = NoCli
    /\ bkind = "Cache"
    /\ \E ttl \in 1..MaxDuration :
        deco = [NoDeco EXCEPT !.ttl = ttl, !.cache = [k \in Keys |-> NoEntry],
                              !.instances = {"n1"}, !.limit = MaxCalls]

NextCache ==
    \/ CacheCall
    \/ CacheReturn
    \/ CacheThrow
    \/ Tick

SpecCache == InitCache /\ [][NextCache]_vars

\* Two instances of a class with both decorated methods.
InitInstances ==
    /\ InitDecorated
    /\ cli = NoCli
    /\ bkind = "decorated"
    /\ \E rt \in 1..MaxDuration, ttl \in 1..MaxDuration :
        deco = [NoDeco EXCEPT !.failureThreshold = 1, !.recoveryTime = rt, !.ttl = ttl,
                              !.cache = [k \in Keys |-> NoEntry],
                              !.instances = Instances, !.limit = MaxCalls]

NextInstances ==
    \/ BreakerCall
    \/ BreakerReturn
    \/ BreakerThrow
    \/ CacheCall
    \/ CacheReturn
    \/ CacheThrow
    \/ Tick

SpecInstances == InitInstances /\ [][NextInstances]_vars

\* ---------------------------------------------------------------- C36..C39
\* The failed invocations of the method wrapped by @CircuitBreaker that
\* completed after its last successful one, in the history h.
RECURSIVE FailuresSinceOk(_)
FailuresSinceOk(h) ==
    IF h = <<>> THEN 0
    ELSE LET e == h[Len(h)]
             front == SubSeq(h, 1, Len(h) - 1)
         IN  IF e.method # "CircuitBreaker" THEN FailuresSinceOk(front)
             ELSE IF e.ev = "ok" THEN 0
             ELSE IF e.ev = "fail" THEN 1 + FailuresSinceOk(front)
             ELSE FailuresSinceOk(front)

\* C36: the failure count of a method wrapped by @CircuitBreaker is the
\* number of failed invocations of the wrapped method since its last
\* successful one (one more per failure, 0 after a success, untouched by a
\* call rejected as open), and a call is rejected as open only when at least
\* failureThreshold failures have happened with no success in between.
C36_CountsFailures ==
    bkind = "CircuitBreaker" =>
        /\ deco.failureCount = FailuresSinceOk(log)
        /\ \A j \in 1..Len(log) :
               log[j].ev = "open" =>
                   FailuresSinceOk(SubSeq(log, 1, j - 1)) >= deco.failureThreshold

\* With a threshold above one, the wrapped method failed as often as the
\* threshold says and the next call was rejected as open.
C36_Witness ==
    /\ bkind = "CircuitBreaker"
    /\ deco.failureThreshold > 1
    /\ Len(log) > 0
    /\ log[Len(log)].ev = "open"
    /\ deco.failureCount = deco.failureThreshold

\* The positions in h of the failures of the method wrapped by @CircuitBreaker.
FailuresIn(h) ==
    {j \in 1..Len(h) : h[j].method = "CircuitBreaker" /\ h[j].ev = "fail"}

\* The most recent failure in h: the event of the wrapped method throwing.
LastFailure(h) == h[CHOOSE j \in FailuresIn(h) : \A k \in FailuresIn(h) : k <= j]

\* The clock reading at which the call that ended in event e was made.
CallMade(h, e) ==
    LET j == CHOOSE k \in 1..Len(h) : h[k].id = e.id /\ h[k].ev = "invoke" IN h[j].t

\* The calls in the history that reached the wrapped method while the
\* failure count was at the threshold or above.
ReachedWhileTripped ==
    {j \in 1..Len(log) :
        /\ log[j].method = "CircuitBreaker"
        /\ log[j].ev = "invoke"
        /\ FailuresSinceOk(SubSeq(log, 1, j - 1)) >= deco.failureThreshold}

\* C37: once the failure count has reached failureThreshold, a call reaches
\* the wrapped method only when at least recoveryTime has elapsed since the
\* moment of the most recent failure; the calls made before that are rejected
\* as open.
C37_ClosedUntilRecovered ==
    bkind = "CircuitBreaker" =>
        \A j \in ReachedWhileTripped :
            log[j].t - LastFailure(SubSeq(log, 1, j - 1)).t >= deco.recoveryTime

\* What the wrapper measures from: the moment the call that failed last was
\* made, not the moment it failed.
ClosedSinceCallMade ==
    bkind = "CircuitBreaker" =>
        \A j \in ReachedWhileTripped :
            LET before == SubSeq(log, 1, j - 1)
            IN  log[j].t - CallMade(before, LastFailure(before)) >= deco.recoveryTime

\* The part of the history h made through one instance.
OwnHistory(h, inst) == SelectSeq(h, LAMBDA e : e.inst = inst)

\* A call rejected as open follows failureThreshold failures made through
\* the instance it was made on.
BreakerInstanceScoped ==
    \A j \in 1..Len(log) :
        log[j].ev = "open" =>
            FailuresSinceOk(OwnHistory(SubSeq(log, 1, j - 1), log[j].inst))
                >= deco.failureThreshold

\* A call answered from the cache returns a result stored by a call made on
\* the same instance.
CacheInstanceScoped ==
    \A j \in 1..Len(log) :
        log[j].ev = "hit" =>
            \E i \in 1..(j - 1) :
                /\ log[i].method = "Cache"
                /\ log[i].ev = "ok"
                /\ log[i].inst = log[j].inst
                /\ Stringify(log[i].arg) = Stringify(log[j].arg)
                /\ log[i].val = log[j].val

\* C38: the state the two decorators keep belongs to one instance: a call
\* on an instance is rejected as open, or answered from the cache, only
\* because of failures or results produced through that same instance.
C38_InstanceScoped ==
    bkind = "decorated" => BreakerInstanceScoped /\ CacheInstanceScoped

\* The calls of the method wrapped by @Cache in the history.
CacheCalls ==
    {j \in 1..Len(log) : log[j].method = "Cache" /\ log[j].ev \in {"hit", "invoke"}}

\* The successful calls before position j that stored a result for an
\* argument related by Same(_, _) to that of the call at j, less than ttl
\* before it.
StoredFor(j, Same(_, _)) ==
    {i \in 1..(j - 1) :
        /\ log[i].method = "Cache"
        /\ log[i].ev = "ok"
        /\ Same(log[i].arg, log[j].arg)
        /\ log[j].t - log[i].t < deco.ttl}

\* Equal arguments, and arguments JSON.stringify writes alike.
EqualArgs(a, b) == a = b
SameKey(a, b) == Stringify(a) = Stringify(b)

\* The entry of a key after the history h: that of the last successful call
\* made with that key; a call that threw leaves no trace.
RECURSIVE EntryAfter(_, _)
EntryAfter(h, key) ==
    IF h = <<>> THEN NoEntry
    ELSE LET e == h[Len(h)]
         IN  IF e.method = "Cache" /\ e.ev = "ok" /\ Stringify(e.arg) = key
             THEN [set |-> TRUE, value |-> e.val, expiry |-> e.t + deco.ttl]
             ELSE EntryAfter(SubSeq(h, 1, Len(h) - 1), key)

\* C39: a call of a method wrapped by @Cache is answered with a stored value,
\* without the method being invoked, exactly when an earlier successful call
\* with equal arguments stored its result less than ttl before; otherwise
\* the method is invoked; the entries are those of the successful calls only.
C39_HitIffStoredForEqualArgs ==
    bkind = "Cache" =>
        /\ \A j \in CacheCalls :
               log[j].ev = "hit" <=> StoredFor(j, EqualArgs) # {}
        /\ \A key \in Keys : deco.cache[key] = EntryAfter(log, key)

\* What the wrapper does: it answers from the cache exactly when an earlier
\* successful call whose arguments JSON.stringify writes alike stored its
\* result less than ttl before, and with the result stored last.
HitIffStoredForSameKey ==
    bkind = "Cache" =>
        /\ \A j \in CacheCalls :
               /\ log[j].ev = "hit" <=> StoredFor(j, SameKey) # {}
               /\ log[j].ev = "hit" =>
                      log[j].val =
                          EntryAfter(SubSeq(log, 1, j - 1), Stringify(log[j].arg)).value
        /\ \A key \in Keys : deco.cache[key] = EntryAfter(log, key)

\* ------------------------------------------------------------ createProject
\* The two versions of createProject: lib/create-project.js, and the one
\* that also asks for a package manager.
Versions == {"create-project", "with-package-manager"}

\* Two of packageManager.managers, and the ones installed on the machine.
Managers == {"npm", "bun"}

\* What the target directory holds: nothing there; a directory that was there
\* before the run; the empty directory made by ensureDir; part of a
\* directory tree (a copy or a removal that failed midway); the template;
\* the template with the project's name in package.json; the same with the
\* scripts rewritten for the package manager.
DiskStates == {"absent", "existing", "empty", "partial", "template", "named", "scripted"}

\* One operation on the target directory that succeeded.
FsEvent(op) == [ev |-> "fs", op |-> op]

\* catch (error) { logger.error(error.message); process.exit(1) }
Catch(c, error, disk) == [c EXCEPT !.pc = "exit1", !.error = error, !.disk = disk]

\* if (!projectDir) { answers = await inquirer.prompt(...); projectDir =
\* answers.projectDir }; targetDir = path.resolve(process.cwd(), projectDir)
AskProjectDir ==
    /\ cli.pc = "projectDir"
    /\ \/ cli' = [cli EXCEPT !.pc = "existsSync", !.projectDir = "my-app"]
       \/ /\ cli.projectDir = Undefined
          /\ cli' = Catch(cli, "prompt", cli.disk)
    /\ UNCHANGED log
    /\ UNCHANGED <<cfgVars, memo, parked, deco, metrics, store, mapred, cur_retry, flow, frame,
                   active, trace, batVars>>

\* if (fs.existsSync(targetDir)) { ... }
ExistsSync ==
    /\ cli.pc = "existsSync"
    /\ cli' = [cli EXCEPT !.pc = IF cli.disk = "absent" THEN "ensureDir" ELSE "overwrite"]
    /\ UNCHANGED log
    /\ UNCHANGED <<cfgVars, memo, parked, deco, metrics, store, mapred, cur_retry, flow, frame,
                   active, trace, batVars>>

\* const { overwrite } = await inquirer.prompt(...); if (!overwrite) {
\* logger.error('Operation cancelled'); process.exit(1) }
AskOverwrite ==
    /\ cli.pc = "overwrite"
    /\ \/ cli' = [cli EXCEPT !.pc = "remove"]
       \/ cli' = [cli EXCEPT !.pc = "exit1", !.error = "Operation cancelled"]
       \/ cli' = Catch(cli, "prompt", cli.disk)
    /\ UNCHANGED log
    /\ UNCHANGED <<cfgVars, memo, parked, deco, metrics, store, mapred, cur_retry, flow, frame,
                   active, trace, batVars>>

\* await fs.remove(targetDir)
Remove ==
    /\ cli.pc = "remove"
    /\ \/ /\ cli' = [cli EXCEPT !.pc = "ensureDir", !.disk = "absent"]
          /\ log' = Append(log, FsEvent("remove"))
       \/ /\ \E left \in {"existing", "partial"} : cli' = Catch(cli, "remove", left)
          /\ UNCHANGED log
    /\ UNCHANGED <<cfgVars, memo, parked, deco, metrics, store, mapred, cur_retry, flow, frame,
                   active, trace, batVars>>

\* await fs.ensureDir(targetDir)
EnsureDir ==
    /\ cli.pc = "ensureDir"
    /\ \/ /\ cli' = [cli EXCEPT !.disk = "empty",
                                !.pc = IF cli.version = "with-package-manager"
                                       THEN "packageName" ELSE "template"]
          /\ log' = Append(log, FsEvent("ensureDir"))
       \/ /\ cli' = Catch(cli, "ensureDir", cli.disk)
          /\ UNCHANGED log
    /\ UNCHANGED <<cfgVars, memo, parked, deco, metrics, store, mapred, cur_retry, flow, frame,
                   active, trace, batVars>>

\* const { packageName } = await inquirer.prompt(...);
\* selectedPackageManager = pakageManager.getManagerByName(packageName),
\* which throws when detect(name) finds the manager not installed.
SelectPackageManager ==
    /\ cli.pc = "packageName"
    /\ \/ \E name \in Managers :
             IF name \in cli.installed
             THEN cli' = [cli EXCEPT !.pc = "template", !.packageName = name]
             ELSE cli' = Catch([cli EXCEPT !.packageName = name], "not installed", cli.disk)
       \/ cli' = Catch(cli, "prompt", cli.disk)
    /\ UNCHANGED log
    /\ UNCHANGED <<cfgVars, memo, parked, deco, metrics, store, mapred, cur_retry, flow, frame,
                   active, trace, batVars>>

\* const { template } = await inquirer.prompt(...)
SelectTemplate ==
    /\ cli.pc = "template"
    /\ \/ cli' = [cli EXCEPT !.pc = "copyTemplate"]
       \/ cli' = Catch(cli, "prompt", cli.disk)
    /\ UNCHANGED log
    /\ UNCHANGED <<cfgVars, memo, parked, deco, metrics, store, mapred, cur_retry, flow, frame,
                   active, trace, batVars>>

\* await templateManager.copyTemplate(templateDir, targetDir): fs.copy
CopyTemplate ==
    /\ cli.pc = "copyTemplate"
    /\ \/ /\ cli' = [cli EXCEPT !.pc = "updatePackageJson", !.disk = "template"]
          /\ log' = Append(log, FsEvent("copy"))
       \/ /\ \E left \in {"empty", "partial"} : cli' = Catch(cli, "copy", left)
          /\ UNCHANGED log
    /\ UNCHANGED <<cfgVars, memo, parked, deco, metrics, store, mapred, cur_retry, flow, frame,
                   active, trace, batVars>>

\* await templateManager.updatePackageJson(targetDir, {name}): readJson,
\* writeJson; in the first version the success messages follow.
UpdatePackageJson ==
    /\ cli.pc = "updatePackageJson"
    /\ \/ /\ cli' = [cli EXCEPT !.disk = "named",
                                !.pc = IF cli.version = "with-package-manager"
                                       THEN "updatePackageScripts" ELSE "done"]
          /\ log' = Append(log, FsEvent("writeJson"))
       \/ /\ cli' = Catch(cli, "updatePackageJson", cli.disk)
          /\ UNCHANGED log
    /\ UNCHANGED <<cfgVars, memo, parked, deco, metrics, store, mapred, cur_retry, flow, frame,
                   active, trace, batVars>>

\* await templateManager.updatePackageScripts(targetDir,
\* selectedPackageManager): the scripts are rewritten when the manager is not
\* npm; the success messages follow.
UpdatePackageScripts ==
    /\ cli.pc = "updatePackageScripts"
    /\ \/ /\ cli.packageName # "npm"
          /\ cli' = [cli EXCEPT !.pc = "done", !.disk = "scripted"]
          /\ log' = Append(log, FsEvent("writeJson"))
       \/ /\ cli.packageName = "npm"
          /\ cli' = [cli EXCEPT !.pc = "done"]
          /\ UNCHANGED log
       \/ /\ cli' = Catch(cli, "updatePackageScripts", cli.disk)
          /\ UNCHANGED log
    /\ UNCHANGED <<cfgVars, memo, parked, deco, metrics, store, mapred, cur_retry, flow, frame,
                   active, trace, batVars>>

\* createProject(projectDir) is called: with or without a name, with the
\* target directory there or not, on a machine with some managers installed.
InitCli ==
    /\ InitDecorated   \* no flow is built or run
    /\ bkind = "createProject"
    /\ deco = NoDeco
    /\ \E v \in Versions, dir \in {Undefined, "my-app"},
          before \in {"absent", "existing"}, installed \in SUBSET Managers :
        cli = [NoCli EXCEPT !.version = v, !.projectDir = dir, !.before = before,
                            !.disk = before, !.installed = installed,
                            !.pc = "projectDir"]

NextCli ==
    \/ AskProjectDir
    \/ ExistsSync
    \/ AskOverwrite
    \/ Remove
    \/ EnsureDir
    \/ SelectPackageManager
    \/ SelectTemplate
    \/ CopyTemplate
    \/ UpdatePackageJson
    \/ UpdatePackageScripts

SpecCli == InitCli /\ [][NextCli]_vars

\* The run created the target directory, or removed the one that was there.
Touched == \E j \in 1..Len(log) : log[j].op \in {"remove", "ensureDir"}

\* C40: project creation either completes, leaving the whole project, or
\* cleans up: when a step fails after the target directory was created or an
\* existing one removed, no partial project directory is left on disk.
C40_CreationAtomic ==
    bkind = "createProject" =>
        /\ cli.pc = "done" => cli.disk \in {"named", "scripted"}
        /\ cli.pc = "exit1" /\ Touched => cli.disk = "absent"

\* What does hold: a run that completes leaves the whole project, and a run
\* that ends before any operation on the directory leaves what was there.
CompletesOrUntouched ==
    bkind = "createProject" =>
        /\ cli.pc = "done" => cli.disk \in {"named", "scripted"}
        /\ cli.pc = "exit1" /\ log = <<>> /\ cli.error # "remove" => cli.disk = cli.before
====
